---- MODULE Spec2Model ----
(***************************************************************************)
(* Model of the operator console's rosbridge client (lib/recording/        *)
(* rosbridge, class RosbridgeClient) and of the root layout's load guard.  *)
(*                                                                         *)
(* The client is modelled as a record of its private fields together with  *)
(* the objects it drives: the WebSockets it created (their readyState),    *)
(* the promises it handed out, the timers it started and the frames it     *)
(* passed to WebSocket.send.  Every method of the class is an operator     *)
(* from such a record to the record after the call, composed in the order  *)
(* of the statements of the source; every action of the model is one task  *)
(* of the browser's event loop (a caller's call, a socket event, a timer), *)
(* followed by the microtasks it makes runnable.                           *)
(***************************************************************************)
EXTENDS Integers, Sequences, FiniteSets, TLC

\* ---------------------------------------------------------------- bounds
MaxSockets == 2      \* WebSocket objects that may be alive at the same time
MaxCalls == 2        \* callService invocations in one behaviour
MaxAttempt == 6      \* connection failures in a row before the server accepts
MaxSvcAttempt == 2   \* the same, where service calls are checked
MaxPathLen == 6      \* characters of url.pathname
MaxBlueprints == 2   \* distinct blueprint trees the session page may display
MaxList == 2         \* elements of the topics and types arrays of a response
MaxRegs == 2         \* subscribe calls whose unsubscribe functions are followed
MaxMsgs == 3         \* messages a telemetry view is handed before its buffer is emptied
MaxBlocks == 1       \* analysis blocks edited on the analyses page

\* ------------------------------------------------------- program constants
DefaultQueueLength == 1
DefaultThrottleRate == 100
DefaultTimeoutMs == 3000
BaseDelayMs == 1000
MaxDelayMs == 15000
RedirectStatus == 302

\* An optional number that was not given (undefined).
Undefined == -1

Topics == {"/joint_states", "/camera/compressed"}
Handlers == {"h1", "h2"}
Msgs == {"m1"}
NoType == "undefined"
OptionSet ==
  { [type |-> NoType, queue_length |-> Undefined, throttle_rate |-> Undefined],
    [type |-> "sensor_msgs/JointState", queue_length |-> 5, throttle_rate |-> 0] }
TimeoutInputs == {Undefined, 500}
Services == {"", "/rosapi/topics"}
ResultInputs == {"true", "false", "absent"}

Sockets == 1..MaxSockets
Slots == 1..MaxCalls
Statuses == {"idle", "connecting", "connected", "disconnected", "error"}

VARIABLES
  ws,                  \* this.ws: the socket, 0 for null
  status,              \* this.status
  subscriptions,       \* this.subscriptions: topic -> [handlers, options]
  pendingServiceCalls, \* this.pendingServiceCalls: id -> the slot of its promise
  serviceRequestSeq,   \* this.serviceRequestSeq
  connectPromise,      \* this.connectPromise: the promise, 0 for null
  reconnectTimer,      \* this.reconnectTimer: TRUE while it holds a timer handle
  reconnectTimeouts,   \* timeouts set by scheduleReconnect that have not fired
  reconnectAttempt,    \* this.reconnectAttempt
  reconnectDelay,      \* delay given to setTimeout for the pending reconnect
  readyState,          \* per WebSocket: none, connecting, open, errored, closed
  promise,             \* per connect promise: none, pending, resolved, rejected
  timers,              \* service timers running: id -> [slot, ms]
  call,                \* per callService invocation: its promise's state
  callId,              \* per callService invocation: the id it sent, 0 if none
  callValue,           \* per callService invocation: the payload it resolved with
  settles,             \* per callService invocation: resolve/reject calls made
  waiters,             \* callService invocations awaiting connect(), in order
  sent,                \* frames passed to WebSocket.send in the last task
  invoked,             \* handler -> the messages it was called with in the last task
  uncaught,            \* an exception left a handler of the client uncaught
  statusListeners,     \* this.statusListeners, in insertion order
  notified,            \* the status listeners called by the last task, in order
  last,                \* the last task
  loadPath,            \* root layout load: url.pathname
  loadPc,              \* root layout load: position
  authReply,           \* root layout load: what api.auth.status() does
  statusCalls,         \* root layout load: calls of api.auth.status()
  loadResult,          \* root layout load: outcome
  mounted,             \* session page: mounted ($state)
  sessionId,           \* session page: page.params.session_id ?? ''
  activeBlueprintId,   \* session page: activeBlueprintId ($state)
  blueprint,           \* session page: blueprint ($state), 0 for the default tree
  filledDefaults,      \* session page: filledDefaults ($state)
  topicsLoaded,        \* session page: $topicsQuery.data has topics
  drafts,              \* draft storage: <<sessionId, blueprintId>> -> blueprint
  saveDeps,            \* session page: signals the draft effect read in its last run
  saveDirty,           \* session page: the draft effect is scheduled to run
  pageLast,            \* session page: the last step and the draft it wrote
  blueprintSession,    \* the session id that was current when blueprint was last assigned
  localStorage,        \* window.localStorage: key -> value
  hasWindow,           \* typeof window !== 'undefined'
  variant,             \* which config module is built: web or tauri
  lastStored,          \* the url given to the last setBackendUrl, {} if none or cleared
  cfgLast,             \* config: the last call, its argument and what it returned
  topics,              \* topics page: topics ($state), the names in list order
  selectedTopic,       \* topics page: selectedTopic ($state)
  previewPayload,      \* topics page: previewPayload, {} for null
  unsubscribePreview,  \* topics page: unsubscribePreview, {} for null
  loadingTopics,       \* topics page: loadingTopics ($state)
  refreshing,          \* topics page: refreshTopics calls awaiting listTopics
  camAlive,            \* CameraView: the component exists
  camTopic,            \* CameraView: topic (prop)
  imageSrc,            \* CameraView: imageSrc
  camError,            \* CameraView: error
  camStatus,           \* CameraView: status
  camUnsubscribe,      \* CameraView: unsubscribe, {} for null
  requiresCompressed,  \* CameraView: requiresCompressed
  regs,                \* the subscribe calls made, each with its unsubscribe function
  listValues, \* listTopics: response.values
  listResult, \* listTopics: the list it returned
  statusOffs, \* the onStatusChange calls made: the listener each returned function removes
  logAlive, \* LogView: the component exists
  logTopic, \* LogView: prop topic
  logUnsubscribe, \* LogView: unsubscribe, {} for null
  lines, \* LogView: lines
  maxLines, \* LogView: prop maxLines
  received, \* the lines handed to LogView since maxLines was given or lines emptied
  jointAlive, \* JointState: the component exists
  jointTopic, \* JointState: prop topic
  jointUnsubscribe, \* JointState: unsubscribe, {} for null
  jointNames, \* JointState: jointNames, "" for []
  posSeries, \* JointState: the sample indices of the data of a series
  jointIndex, \* JointState: index
  maxPoints, \* JointState: prop maxPoints
  dragging, \* SplitPane: dragging
  editable, \* SplitPane: prop editable
  direction, \* SplitPane: prop direction
  dispatched, \* SplitPane: the resize events the last step dispatched
  pressed, \* a pointerdown on the handle with no pointerup or pointerleave since
  splitLast, \* SplitPane: the last event handled
  selectedId, \* session page: selectedId ($state)
  editMode, \* session page: editMode ($state)
  fills, \* the fillDefaultConfig calls made since a blueprint was applied
  onSelectCalls, \* the ids the last event called onSelect with
  editorLast, \* session page: the last event of the layout editor
  experimentId, \* analyses page: $page.params.experiment_id
  experiment, \* analyses page: experiment ($experimentQuery.data), its id, "" for undefined
  analysesData, \* analyses page: $analysesQuery.data, <<>> for undefined
  analysisBlocks, \* analyses page: analysisBlocks
  initializedId, \* analyses page: initializedId
  submitting, \* analyses page: submitting
  saveError, \* analyses page: error
  saveSuccess, \* analyses page: success
  saveCall, \* analyses page: the handleSave call in flight
  serverAnalyses, \* the analyses the server holds, by experiment
  initialised, \* the experiment ids the blocks were initialised for
  analysesLast, \* analyses page: the last step
  actionPending, \* setup page: actionPending
  actionIntent, \* setup page: actionIntent
  actionMessage, \* setup page: actionMessage
  activeProfileName, \* setup page: activeProfileName
  vlaborState, \* setup page: vlaborState
  actionCalls, \* setup page: the startVlabor and stopVlabor calls in flight
  startedId, \* the session id of the last startSession that succeeded, "" before
  setupLast \* setup page: the last step

cvars == <<ws, status, subscriptions, pendingServiceCalls, serviceRequestSeq,
           connectPromise, reconnectTimer, reconnectTimeouts, reconnectAttempt,
           reconnectDelay,
           readyState, promise, timers, call, callId, callValue, settles,
           waiters, sent, invoked, uncaught, statusListeners, notified, last>>
lvars == <<loadPath, loadPc, authReply, statusCalls, loadResult>>
svars == <<mounted, sessionId, activeBlueprintId, blueprint, filledDefaults,
           topicsLoaded, drafts, saveDeps, saveDirty, pageLast, blueprintSession>>
bvars == <<localStorage, hasWindow, variant, lastStored, cfgLast>>
\* Everything that is neither the rosbridge client's nor the thing it drives.
tvars == <<topics, selectedTopic, previewPayload, unsubscribePreview,
           loadingTopics, refreshing>>
mvars == <<camAlive, camTopic, imageSrc, camError, camStatus, camUnsubscribe,
           requiresCompressed>>
rvars == <<regs>>
pvars == <<listValues, listResult>>
nvars == <<statusOffs>>
vvars == <<logAlive, logTopic, logUnsubscribe, lines, maxLines, received, jointAlive, jointTopic, jointUnsubscribe, jointNames, posSeries, jointIndex, maxPoints>>
xvars == <<dragging, editable, direction, dispatched, pressed, splitLast>>
evars == <<selectedId, editMode, fills, onSelectCalls, editorLast>>
avars == <<experimentId, experiment, analysesData, analysisBlocks, initializedId, submitting, saveError, saveSuccess, saveCall, serverAnalyses, initialised, analysesLast>>
uvars == <<actionPending, actionIntent, actionMessage, activeProfileName, vlaborState, actionCalls, startedId, setupLast>>
ovars == <<lvars, svars, bvars, tvars, mvars, rvars, pvars, nvars, vvars, xvars, evars, avars, uvars>>
exceptLoad == <<cvars, svars, bvars, tvars, mvars, rvars, pvars, nvars, vvars, xvars, evars, avars, uvars>>
exceptSession == <<cvars, lvars, bvars, tvars, mvars, rvars, pvars, nvars, vvars, xvars, evars, avars, uvars>>
exceptConfig == <<cvars, lvars, svars, tvars, mvars, rvars, pvars, nvars, vvars, xvars, evars, avars, uvars>>
exceptTopics == <<lvars, svars, bvars, mvars, rvars, pvars, nvars, vvars, xvars, evars, avars, uvars>>
exceptCamera == <<lvars, svars, bvars, tvars, rvars, pvars, nvars, vvars, xvars, evars, avars, uvars>>
exceptRegs == <<lvars, svars, bvars, tvars, mvars, pvars, nvars, vvars, xvars, evars, avars, uvars>>
exceptList == <<cvars, lvars, svars, bvars, tvars, mvars, rvars, nvars, vvars, xvars, evars, avars, uvars>>
exceptListClient == <<lvars, svars, bvars, tvars, mvars, rvars, nvars, vvars, xvars, evars, avars, uvars>>
exceptStatus == <<lvars, svars, bvars, tvars, mvars, rvars, pvars, vvars, xvars, evars, avars, uvars>>
exceptViews == <<lvars, svars, bvars, tvars, mvars, rvars, pvars, nvars, xvars, evars, avars, uvars>>
exceptSplit == <<cvars, lvars, svars, bvars, tvars, mvars, rvars, pvars, nvars, vvars, evars, avars, uvars>>
exceptEditor == <<cvars, lvars, bvars, tvars, mvars, rvars, pvars, nvars, vvars, xvars, avars, uvars>>
exceptAnalyses == <<cvars, lvars, svars, bvars, tvars, mvars, rvars, pvars, nvars, vvars, xvars, evars, uvars>>
exceptSetup == <<cvars, lvars, svars, bvars, tvars, mvars, rvars, pvars, nvars, vvars, xvars, evars, avars>>
vars == <<cvars, ovars>>

\* ------------------------------------------------------------ the world
\* The client's fields and the objects it drives, as one record.
World ==
  [ ws |-> ws, status |-> status, subscriptions |-> subscriptions,
    pendingServiceCalls |-> pendingServiceCalls,
    serviceRequestSeq |-> serviceRequestSeq, connectPromise |-> connectPromise,
    reconnectTimer |-> reconnectTimer, reconnectTimeouts |-> reconnectTimeouts,
    reconnectAttempt |-> reconnectAttempt,
    reconnectDelay |-> reconnectDelay, readyState |-> readyState,
    promise |-> promise, timers |-> timers, call |-> call, callId |-> callId,
    callValue |-> callValue,
    settles |-> settles, waiters |-> waiters,
    sent |-> {}, invoked |-> [h \in Handlers |-> <<>>], uncaught |-> uncaught,
    statusListeners |-> statusListeners, notified |-> <<>>,
    ret |-> "none" ]

CommitClient(v, op) ==
  \E w \in {v} :
  /\ ws' = w.ws
  /\ status' = w.status
  /\ subscriptions' = w.subscriptions
  /\ pendingServiceCalls' = w.pendingServiceCalls
  /\ serviceRequestSeq' = w.serviceRequestSeq
  /\ connectPromise' = w.connectPromise
  /\ reconnectTimer' = w.reconnectTimer
  /\ reconnectTimeouts' = w.reconnectTimeouts
  /\ reconnectAttempt' = w.reconnectAttempt
  /\ reconnectDelay' = w.reconnectDelay
  /\ readyState' = w.readyState
  /\ promise' = w.promise
  /\ timers' = w.timers
  /\ call' = w.call
  /\ callId' = w.callId
  /\ callValue' = w.callValue
  /\ settles' = w.settles
  /\ waiters' = w.waiters
  /\ sent' = w.sent
  /\ invoked' = w.invoked
  /\ uncaught' = w.uncaught
  /\ statusListeners' = w.statusListeners
  /\ notified' = w.notified
  /\ last' = op

Commit(v, op) == CommitClient(v, op) /\ UNCHANGED ovars

\* Removing the keys ks from the map f.
Without(f, ks) == [k \in DOMAIN f \ ks |-> f[k]]
\* The map f with key k set to v.
With(f, k, v) == [x \in DOMAIN f \cup {k} |-> IF x = k THEN v ELSE f[x]]

\* F applied to the value of v: the statement after v's, in source order.
Then(v, F(_)) == CHOOSE r \in {F(x) : x \in {v}} : TRUE

RECURSIVE Pow2(_)
Pow2(n) == IF n = 0 THEN 1 ELSE 2 * Pow2(n - 1)
Min(a, b) == IF a < b THEN a ELSE b


\* --------------------------------------------------------- RosbridgeClient
Frame(op, topic, options, id, service, sock) ==
  [ op |-> op, topic |-> topic, type |-> options.type,
    queue_length |-> options.queue_length,
    throttle_rate |-> options.throttle_rate,
    id |-> id, service |-> service, sock |-> sock ]
NoOptions == [type |-> NoType, queue_length |-> Undefined, throttle_rate |-> Undefined]

\* a ?? b
Coalesce(a, b) == IF a = Undefined THEN b ELSE a

\* WebSocket.send throws while the socket is still connecting,
\* queues the data when it is open and drops it when it is closing or closed.
SendThrows(w) == w.ws # 0 /\ w.readyState[w.ws] = "connecting"
wsSend(w, frame) ==
  IF w.ws # 0 /\ w.readyState[w.ws] = "open"
    THEN [w EXCEPT !.sent = @ \cup {frame}]
    ELSE w

\* The calls `listener(next)` of one updateStatus, each with what
\* getStatus() returns while it runs.
Notify(listeners, next, current) ==
  [i \in 1..Len(listeners) |->
     [listener |-> listeners[i], value |-> next, getStatus |-> current]]

\* Mutant: the listeners are called before the status is assigned.
updateStatusEarly(w, next) ==
  IF w.status = next THEN w
  ELSE [w EXCEPT !.notified = @ \o Notify(w.statusListeners, next, w.status),
                 !.status = next]

updateStatus(w, next) ==
  IF w.status = next THEN w
  ELSE [w EXCEPT !.status = next,
                 !.notified = @ \o Notify(w.statusListeners, next, next)]

\* Set.prototype.add and Set.prototype.delete on a set kept in insertion order.
SetAdd(q, x) == IF \E i \in 1..Len(q) : q[i] = x THEN q ELSE Append(q, x)
SetDelete(q, x) == SelectSeq(q, LAMBDA y : y # x)

onStatusChange(w, handler) ==
  [w EXCEPT !.statusListeners = SetAdd(@, handler)]
\* The function onStatusChange(handler) returned.
offStatusChange(w, handler) ==
  [w EXCEPT !.statusListeners = SetDelete(@, handler)]

\* The pages are rendered in the browser only (ssr = false), where window
\* exists and both branches of buildUrl return a ws:// or wss:// url.
buildUrl == "ws://localhost:9090"

FreeSockets(w) ==
  {s \in Sockets : w.readyState[s] \in {"none", "closed"}
                   /\ s # w.ws /\ s # w.connectPromise}
NeedsSocket(w) ==
  /\ ~(w.status = "connected" /\ w.ws # 0)
  /\ w.connectPromise = 0
  /\ buildUrl # ""
ConnectOK(w) == NeedsSocket(w) => FreeSockets(w) # {}

\* Mutant: connect() starts an attempt of its own beside the pending one.
connectNoShare(w) ==
  IF w.status = "connected" /\ w.ws # 0 THEN [w EXCEPT !.ret = "resolved"]
  ELSE IF FreeSockets(w) = {} THEN [w EXCEPT !.ret = "promise"]
  ELSE Then(updateStatus(w, "connecting"), LAMBDA w1 :
       LET s == CHOOSE x \in FreeSockets(w1) : \A y \in FreeSockets(w1) : x <= y
       IN [w1 EXCEPT !.connectPromise = s, !.ws = s,
                     !.readyState[s] = "connecting",
                     !.promise[s] = "pending", !.ret = "promise"])

\* Mutant: connect() opens a socket although the client is connected.
connectWhileConnected(w) ==
  IF w.connectPromise # 0 THEN [w EXCEPT !.ret = "promise"]
  ELSE IF FreeSockets(w) = {} THEN [w EXCEPT !.ret = "resolved"]
  ELSE Then(updateStatus(w, "connecting"), LAMBDA w1 :
       LET s == CHOOSE x \in FreeSockets(w1) : \A y \in FreeSockets(w1) : x <= y
       IN [w1 EXCEPT !.connectPromise = s, !.ws = s,
                     !.readyState[s] = "connecting",
                     !.promise[s] = "pending", !.ret = "promise"])

\* connect(): w.ret tells what it returned, a settled promise ("resolved",
\* "rejected") or the pending connectPromise ("promise", the one held by w).
connect(w) ==
  IF w.status = "connected" /\ w.ws # 0 THEN [w EXCEPT !.ret = "resolved"]
  ELSE IF w.connectPromise # 0 THEN [w EXCEPT !.ret = "promise"]
  ELSE Then(updateStatus(w, "connecting"), LAMBDA w1 :
    IF buildUrl = ""
      THEN [updateStatus(w1, "error") EXCEPT !.ret = "rejected"]
      ELSE LET s == CHOOSE x \in FreeSockets(w1) :
                      \A y \in FreeSockets(w1) : x <= y
           IN [w1 EXCEPT !.connectPromise = s, !.ws = s,
                         !.readyState[s] = "connecting",
                         !.promise[s] = "pending", !.ret = "promise"])

\* Mutant: || in place of ??, which replaces a given 0 by the default.
sendSubscribeFalsy(w, topic, options) ==
  IF w.ws = 0 \/ w.status # "connected" THEN w
  ELSE wsSend(w, Frame("subscribe", topic,
                       [ type |-> options.type,
                         queue_length |-> IF options.queue_length \in {Undefined, 0}
                                            THEN DefaultQueueLength ELSE options.queue_length,
                         throttle_rate |-> IF options.throttle_rate \in {Undefined, 0}
                                             THEN DefaultThrottleRate ELSE options.throttle_rate ],
                       0, "", w.ws))

sendSubscribe(w, topic, options) ==
  IF w.ws = 0 \/ w.status # "connected" THEN w
  ELSE IF SendThrows(w) THEN [w EXCEPT !.uncaught = TRUE]
  ELSE wsSend(w, Frame("subscribe", topic,
                       [ type |-> options.type,
                         queue_length |-> Coalesce(options.queue_length, DefaultQueueLength),
                         throttle_rate |-> Coalesce(options.throttle_rate, DefaultThrottleRate) ],
                       0, "", w.ws))

sendUnsubscribe(w, topic) ==
  IF w.ws = 0 \/ w.status # "connected" THEN w
  ELSE IF SendThrows(w) THEN [w EXCEPT !.uncaught = TRUE]
  ELSE wsSend(w, Frame("unsubscribe", topic, NoOptions, 0, "", w.ws))

\* Mutant: a timer is set although one is pending.
scheduleReconnectAgain(w) ==
  IF DOMAIN w.subscriptions = {} THEN w
  ELSE [w EXCEPT !.reconnectDelay =
                    Min(BaseDelayMs * Pow2(w.reconnectAttempt), MaxDelayMs),
                 !.reconnectAttempt = @ + 1,
                 !.reconnectTimer = TRUE,
                 !.reconnectTimeouts = @ + 1]

\* Mutant: the attempt is counted before the delay is computed.
scheduleReconnectCountFirst(w) ==
  IF w.reconnectTimer \/ DOMAIN w.subscriptions = {} THEN w
  ELSE [w EXCEPT !.reconnectDelay =
                    Min(BaseDelayMs * Pow2(w.reconnectAttempt + 1), MaxDelayMs),
                 !.reconnectAttempt = @ + 1,
                 !.reconnectTimer = TRUE,
                 !.reconnectTimeouts = @ + 1]

\* Mutant: a single retry, no reconnect is scheduled after a failed one.
scheduleReconnectOnce(w) ==
  IF w.reconnectTimer \/ DOMAIN w.subscriptions = {} \/ w.reconnectAttempt >= 1 THEN w
  ELSE [w EXCEPT !.reconnectDelay =
                    Min(BaseDelayMs * Pow2(w.reconnectAttempt), MaxDelayMs),
                 !.reconnectAttempt = @ + 1,
                 !.reconnectTimer = TRUE,
                 !.reconnectTimeouts = @ + 1]

scheduleReconnect(w) ==
  IF w.reconnectTimer \/ DOMAIN w.subscriptions = {} THEN w
  ELSE [w EXCEPT !.reconnectDelay =
                    Min(BaseDelayMs * Pow2(w.reconnectAttempt), MaxDelayMs),
                 !.reconnectAttempt = @ + 1,
                 !.reconnectTimer = TRUE,
                 !.reconnectTimeouts = @ + 1]

\* resolve or reject of the promise of the callService invocation k.
Unsettled == {"unused", "awaiting", "pending"}
Settle(w, k, outcome) ==
  [w EXCEPT !.call[k] = IF @ \in Unsettled THEN outcome ELSE @,
            !.settles[k] = @ + 1]

RECURSIVE rejectEach(_, _, _)
rejectEach(w, ids, error) ==
  IF ids = {} THEN w
  ELSE LET id == CHOOSE x \in ids : \A y \in ids : x <= y
       IN Then([w EXCEPT !.timers = Without(@, {id})], LAMBDA w1 :
          Then(Settle(w1, w1.pendingServiceCalls[id], error), LAMBDA w2 :
          Then([w2 EXCEPT !.pendingServiceCalls = Without(@, {id})], LAMBDA w3 :
          rejectEach(w3, ids \ {id}, error))))

\* Mutant: the timers of the rejected calls are left running.
rejectPendingKeepsTimers(w, error) ==
  Then(rejectEach(w, DOMAIN w.pendingServiceCalls, error), LAMBDA w1 :
  [w1 EXCEPT !.timers = w.timers])

rejectPendingServiceCalls(w, error) ==
  rejectEach(w, DOMAIN w.pendingServiceCalls, error)

\* The payload of a service_response, and the value of a promise that has
\* not been resolved.
Payload(id, result) == [id |-> id, result |-> result]
NoPayload == Payload(0, "none")

\* pending.resolve(payload)
Resolve(w, k, payload) ==
  Settle([w EXCEPT !.callValue[k] = IF w.call[k] \in Unsettled THEN payload ELSE @],
         k, "resolved")

\* Mutant: !result in place of result === false.
handleServiceResponseFalsy(w, id, result) ==
  IF id = 0 THEN w
  ELSE IF id \notin DOMAIN w.pendingServiceCalls THEN w
  ELSE LET k == w.pendingServiceCalls[id]
       IN Then([w EXCEPT !.timers = Without(@, {id}),
                         !.pendingServiceCalls = Without(@, {id})], LAMBDA w1 :
          IF result \in {"false", "absent"} THEN Settle(w1, k, "failed")
          ELSE Resolve(w1, k, Payload(id, result)))

\* id = 0: the response carries no id.
handleServiceResponse(w, id, result) ==
  IF id = 0 THEN w
  ELSE IF id \notin DOMAIN w.pendingServiceCalls THEN w
  ELSE LET k == w.pendingServiceCalls[id]
       IN Then([w EXCEPT !.timers = Without(@, {id}),
                         !.pendingServiceCalls = Without(@, {id})], LAMBDA w1 :
          IF result = "false" THEN Settle(w1, k, "failed")
          ELSE Resolve(w1, k, Payload(id, result)))

\* callService after `await this.connect()` has returned normally.
callServiceSend(w, k, service, timeoutMs) ==
  IF w.ws = 0 \/ w.status # "connected" THEN Settle(w, k, "not_connected")
  ELSE LET id == w.serviceRequestSeq + 1
       IN Then([w EXCEPT !.serviceRequestSeq = id,
                         !.call[k] = "pending",
                         !.callId[k] = id,
                         !.timers = With(@, id, [slot |-> k, ms |-> timeoutMs]),
                         !.pendingServiceCalls = With(@, id, k)], LAMBDA w1 :
          IF SendThrows(w1)
            THEN Settle([w1 EXCEPT !.timers = Without(@, {id}),
                                   !.pendingServiceCalls = Without(@, {id})],
                        k, "send_failed")
            ELSE wsSend(w1, Frame("call_service", "", NoOptions, id, service, w1.ws)))

\* The microtasks a settled connect promise p makes runnable: every
\* callService awaiting it continues, in the order of the awaits.
RECURSIVE resumeWaiters(_, _, _, _)
resumeWaiters(w, queue, p, fulfilled) ==
  IF queue = <<>> THEN w
  ELSE LET x == Head(queue) IN
    IF x.p # p THEN resumeWaiters(w, Tail(queue), p, fulfilled)
    ELSE Then([w EXCEPT !.waiters = SelectSeq(@, LAMBDA y : y # x)], LAMBDA w1 :
         Then(IF fulfilled THEN callServiceSend(w1, x.slot, x.service, x.ms)
              ELSE Settle(w1, x.slot, "connect_rejected"), LAMBDA w2 :
         resumeWaiters(w2, Tail(queue), p, fulfilled)))

settlePromise(w, p, outcome) ==
  [w EXCEPT !.promise[p] = IF @ = "pending" THEN outcome ELSE @]

RECURSIVE subscribeEach(_, _)
subscribeEach(w, ts) ==
  IF ts = {} THEN w
  ELSE LET t == CHOOSE y \in ts : TRUE
       IN Then(sendSubscribe(w, t, w.subscriptions[t].options), LAMBDA w1 :
          subscribeEach(w1, ts \ {t}))

onopen(w, s) ==
  Then(updateStatus(w, "connected"), LAMBDA w1 :
  Then([w1 EXCEPT !.connectPromise = 0, !.reconnectAttempt = 0], LAMBDA w2 :
  Then(subscribeEach(w2, DOMAIN w2.subscriptions), LAMBDA w3 :
  settlePromise(w3, s, "resolved"))))

\* Mutant: the error handler does everything but reject the promise.
onerrorNoReject(w, s) ==
  Then(rejectPendingServiceCalls(w, "connection_error"), LAMBDA w1 :
  Then(updateStatus(w1, "error"), LAMBDA w2 :
  Then([w2 EXCEPT !.connectPromise = 0], LAMBDA w3 :
  scheduleReconnect(w3))))

onerror(w, s) ==
  Then(rejectPendingServiceCalls(w, "connection_error"), LAMBDA w1 :
  Then(updateStatus(w1, "error"), LAMBDA w2 :
  Then([w2 EXCEPT !.connectPromise = 0], LAMBDA w3 :
  Then(scheduleReconnect(w3), LAMBDA w4 :
  settlePromise(w4, s, "rejected")))))

\* Mutant: a close drops the socket and leaves the status as it was.
oncloseKeepsStatus(w, s) ==
  Then(rejectPendingServiceCalls(w, "connection_closed"), LAMBDA w1 :
  Then([w1 EXCEPT !.connectPromise = 0, !.ws = 0], LAMBDA w3 :
  scheduleReconnect(w3)))

\* Mutant: a close leaves the pending service calls alone.
oncloseKeepsCalls(w, s) ==
  Then(updateStatus(w, "disconnected"), LAMBDA w2 :
  Then([w2 EXCEPT !.connectPromise = 0, !.ws = 0], LAMBDA w3 :
  scheduleReconnect(w3)))

onclose(w, s) ==
  Then(rejectPendingServiceCalls(w, "connection_closed"), LAMBDA w1 :
  Then(updateStatus(w1, "disconnected"), LAMBDA w2 :
  Then([w2 EXCEPT !.connectPromise = 0, !.ws = 0], LAMBDA w3 :
  scheduleReconnect(w3))))

\* Mutant: a 'publish' frame is handed to the handlers of every topic.
onpublishBroadcast(w, topic, msg) ==
  IF topic = "" THEN w
  ELSE IF topic \notin DOMAIN w.subscriptions THEN w
  ELSE [w EXCEPT !.invoked =
          [h \in Handlers |->
             IF \E t \in DOMAIN w.subscriptions : h \in w.subscriptions[t].handlers
               THEN Append(@[h], msg) ELSE @[h]]]

\* ws.onmessage for a 'publish' frame; topic "" stands for a missing topic.
onpublish(w, topic, msg) ==
  IF topic = "" THEN w
  ELSE IF topic \notin DOMAIN w.subscriptions THEN w
  ELSE [w EXCEPT !.invoked =
          [h \in Handlers |->
             IF h \in w.subscriptions[topic].handlers
               THEN Append(@[h], msg) ELSE @[h]]]

\* Mutant: every subscribe() call stores its options in the topic's entry.
subscribeLastOptions(w, topic, handler, options) ==
  IF topic = "" THEN w
  ELSE Then(IF topic \in DOMAIN w.subscriptions
              THEN [w EXCEPT !.subscriptions[topic].options = options]
              ELSE [w EXCEPT !.subscriptions =
                      With(@, topic, [handlers |-> {}, options |-> options])], LAMBDA w1 :
       Then([w1 EXCEPT !.subscriptions[topic].handlers = @ \cup {handler}], LAMBDA w2 :
       IF w2.status = "connected" /\ w2.ws # 0
         THEN sendSubscribe(w2, topic, w2.subscriptions[topic].options)
         ELSE connect(w2)))

\* Mutant: a subscriber that finds the client disconnected starts nothing.
subscribeNoConnect(w, topic, handler, options) ==
  IF topic = "" THEN w
  ELSE Then(IF topic \in DOMAIN w.subscriptions THEN w
            ELSE [w EXCEPT !.subscriptions =
                    With(@, topic, [handlers |-> {}, options |-> options])], LAMBDA w1 :
       Then([w1 EXCEPT !.subscriptions[topic].handlers = @ \cup {handler}], LAMBDA w2 :
       IF w2.status = "connected" /\ w2.ws # 0
         THEN sendSubscribe(w2, topic, w2.subscriptions[topic].options)
         ELSE w2))

subscribe(w, topic, handler, options) ==
  IF topic = "" THEN w
  ELSE Then(IF topic \in DOMAIN w.subscriptions THEN w
            ELSE [w EXCEPT !.subscriptions =
                    With(@, topic, [handlers |-> {}, options |-> options])], LAMBDA w1 :
       Then([w1 EXCEPT !.subscriptions[topic].handlers = @ \cup {handler}], LAMBDA w2 :
       IF w2.status = "connected" /\ w2.ws # 0
         THEN sendSubscribe(w2, topic, w2.subscriptions[topic].options)
         ELSE connect(w2)))

\* Mutant: the frame is sent for every removed handler, not only the last.
unsubscribeEager(w, topic, handler) ==
  IF topic \notin DOMAIN w.subscriptions THEN w
  ELSE Then([w EXCEPT !.subscriptions[topic].handlers = @ \ {handler}], LAMBDA w1 :
       Then(IF w1.subscriptions[topic].handlers = {}
              THEN [w1 EXCEPT !.subscriptions = Without(@, {topic})]
              ELSE w1, LAMBDA w2 :
       IF w2.ws # 0 /\ w2.status = "connected"
         THEN sendUnsubscribe(w2, topic) ELSE w2))

\* The function subscribe(topic, handler) returned.
unsubscribe(w, topic, handler) ==
  IF topic \notin DOMAIN w.subscriptions THEN w
  ELSE Then([w EXCEPT !.subscriptions[topic].handlers = @ \ {handler}], LAMBDA w1 :
       IF w1.subscriptions[topic].handlers = {}
         THEN Then([w1 EXCEPT !.subscriptions = Without(@, {topic})], LAMBDA w2 :
              IF w2.ws # 0 /\ w2.status = "connected"
                THEN sendUnsubscribe(w2, topic) ELSE w2)
         ELSE w1)

\* What a MessageEvent may carry: no data, text that is not JSON, the JSON
\* null, or a JSON object with its op, topic ("" when missing), id (0 when
\* missing) and result.
MessageFrame(data, op, topic, id, result) ==
  [data |-> data, op |-> op, topic |-> topic, id |-> id, result |-> result]

\* Mutant: a payload with a topic is delivered whatever its op.
onmessageAnyOp(w, f) ==
  IF f.data = "empty" THEN w
  ELSE IF f.data = "invalid" THEN w
  ELSE IF f.data = "null" THEN w
  ELSE IF f.op = "service_response" THEN handleServiceResponse(w, f.id, f.result)
  ELSE onpublish(w, f.topic, "m1")

\* ws.onmessage
onmessage(w, f) ==
  IF f.data = "empty" THEN w
  ELSE IF f.data = "invalid" THEN w
  ELSE IF f.data = "null" THEN w
  ELSE IF f.op = "publish" THEN onpublish(w, f.topic, "m1")
  ELSE IF f.op = "service_response" THEN handleServiceResponse(w, f.id, f.result)
  ELSE w

callService(w, k, service, timeoutMs) ==
  IF service = "" THEN Settle(w, k, "service_required")
  ELSE LET ms == Coalesce(timeoutMs, DefaultTimeoutMs)
       IN Then(connect(w), LAMBDA w1 :
          CASE w1.ret = "resolved" -> callServiceSend(w1, k, service, ms)
            [] w1.ret = "rejected" -> Settle(w1, k, "connect_rejected")
            [] OTHER ->
                 [w1 EXCEPT !.call[k] = "awaiting",
                            !.waiters = Append(@, [slot |-> k, p |-> w1.connectPromise,
                                                   service |-> service, ms |-> ms])])

\* Mutant: the timer rejects the call and leaves its entry in the table.
serviceTimeoutKeepsEntry(w, id) ==
  LET k == w.timers[id].slot
  IN Then([w EXCEPT !.timers = Without(@, {id})], LAMBDA w1 :
     Settle(w1, k, "timed_out"))

serviceTimeout(w, id) ==
  LET k == w.timers[id].slot
  IN Then([w EXCEPT !.timers = Without(@, {id}),
                    !.pendingServiceCalls = Without(@, {id})], LAMBDA w1 :
     Settle(w1, k, "timed_out"))

reconnectFire(w) ==
  connect([w EXCEPT !.reconnectTimer = FALSE, !.reconnectTimeouts = @ - 1,
                    !.reconnectDelay = 0])


\* ------------------------------------------------------------------ tasks
Op(op, topic, handler, sock, id, arg) ==
  [op |-> op, topic |-> topic, handler |-> handler, sock |-> sock,
   id |-> id, arg |-> arg, ms |-> 0, options |-> NoOptions, data |-> ""]

\* The error and the close event of a failed socket are dispatched by one
\* task: between the two handlers only microtasks run, and the rejection
\* handlers of this repository's callers call nothing of the client.
Quiet == \A s \in Sockets : readyState[s] # "errored"

Subscribe(topic, handler, options) ==
  /\ Quiet
  /\ topic = "" \/ ConnectOK(World)
  /\ Commit(subscribe(World, topic, handler, options),
            [Op("subscribe", topic, handler, 0, 0, options.type)
               EXCEPT !.options = options])

Unsubscribe(topic, handler) ==
  /\ Quiet
  /\ Commit(unsubscribe(World, topic, handler),
            Op("unsubscribe", topic, handler, 0, 0, ""))

\* handleReconnect of the session page: client.connect().catch(() => {})
ManualConnect ==
  /\ Quiet
  /\ ConnectOK(World)
  /\ Commit(connect(World), Op("connect", "", "", 0, 0, connect(World).ret))

CallService(service, timeoutMs) ==
  /\ Quiet
  /\ ConnectOK(World)
  /\ \E k \in Slots :
       /\ call[k] = "unused"
       /\ \A j \in Slots : j < k => call[j] # "unused"
       /\ Commit(callService(World, k, service, timeoutMs),
                 [Op("callService", "", "", 0, k, service) EXCEPT !.ms = timeoutMs])

SocketOpen(s) ==
  /\ Quiet
  /\ readyState[s] = "connecting"
  /\ \E w1 \in {onopen([World EXCEPT !.readyState[s] = "open"], s)} :
       Commit(resumeWaiters(w1, w1.waiters, s, TRUE),
              Op("open", "", "", s, 0, ""))

SocketError(s, cap) ==
  /\ Quiet
  /\ readyState[s] \in {"connecting", "open"}
  /\ reconnectAttempt < cap
  /\ \E w1 \in {onerror([World EXCEPT !.readyState[s] = "errored"], s)} :
       Commit(resumeWaiters(w1, w1.waiters, s, FALSE),
              Op("error", "", "", s, 0, ""))

\* The close event: of a socket that failed (after its error event) or of
\* an open socket that the server closed.
SocketClose(s) ==
  /\ readyState[s] = "errored" \/ (Quiet /\ readyState[s] = "open")
  /\ Commit(onclose([World EXCEPT !.readyState[s] = "closed"], s),
            Op("close", "", "", s, 0, readyState[s]))

ReceivePublish(s, topic, msg) ==
  /\ Quiet
  /\ readyState[s] = "open"
  /\ Commit(onpublish(World, topic, msg), Op("publish", topic, "", s, 0, msg))

ReceiveServiceResponse(s, id, result) ==
  /\ Quiet
  /\ readyState[s] = "open"
  /\ Commit(handleServiceResponse(World, id, result),
            Op("service_response", "", "", s, id, result))

\* A frame that is empty, is not JSON, parses to null or has another op.
ReceiveIgnored(s, kind) ==
  /\ Quiet
  /\ readyState[s] = "open"
  /\ Commit(World, Op("ignored", "", "", s, 0, kind))

ReceiveMessage(s, f) ==
  /\ Quiet
  /\ readyState[s] = "open"
  /\ Commit(onmessage(World, f),
            [Op("message", f.topic, "", s, f.id, f.op) EXCEPT !.data = f.data])

ServiceTimeout(id) ==
  /\ Quiet
  /\ id \in DOMAIN timers
  /\ Commit(serviceTimeout(World, id), Op("timeout", "", "", 0, id, ""))

ReconnectTimerFire ==
  /\ Quiet
  /\ reconnectTimeouts > 0
  /\ ConnectOK([World EXCEPT !.reconnectTimer = FALSE])
  /\ Commit(reconnectFire(World), Op("reconnect", "", "", 0, 0, ""))

\* A subscribe call whose returned function the caller keeps: the closure
\* holds the call's topic and handler.
SubscribeCall(topic, handler, options) ==
  /\ Quiet
  /\ Len(regs) < MaxRegs
  /\ topic = "" \/ ConnectOK(World)
  /\ regs' = Append(regs, [topic |-> topic, handler |-> handler, called |-> FALSE])
  /\ CommitClient(subscribe(World, topic, handler, options),
                  Op("subscribe", topic, handler, 0, Len(regs) + 1, options.type))
  /\ UNCHANGED exceptRegs

\* The function returned by the r-th subscribe call is invoked, for the
\* first time or again.
UnsubscribeCall(r) ==
  /\ Quiet
  /\ r \in 1..Len(regs)
  /\ regs' = [regs EXCEPT ![r].called = TRUE]
  /\ CommitClient(IF regs[r].topic = "" THEN World
                  ELSE unsubscribe(World, regs[r].topic, regs[r].handler),
                  Op("unsubscribe", regs[r].topic, regs[r].handler, 0, r, ""))
  /\ UNCHANGED exceptRegs

\* ------------------------------------------------------------- listTopics
\* A JSON value of an array: a string, or something that is not a string.
JsonString(v) == [str |-> TRUE, v |-> v]
JsonNumber == [str |-> FALSE, v |-> ""]
\* A field of response.values: missing, not an array, or an array.
Missing == [array |-> FALSE, items |-> <<>>]
NotArray == [array |-> FALSE, items |-> <<JsonNumber>>]
JsonArray(items) == [array |-> TRUE, items |-> items]
\* response.values is undefined.
NoValues == [present |-> FALSE, topics |-> Missing, types |-> Missing]

ArraysOf(elems) ==
  UNION {{JsonArray(q) : q \in [1..n -> elems]} : n \in 0..MaxList}
FieldsOf(elems) == {Missing, NotArray} \cup ArraysOf(elems)
ValuesInputs ==
  {NoValues} \cup
  {[present |-> TRUE, topics |-> t, types |-> y] :
     t \in FieldsOf({JsonString("/a"), JsonString("/b"), JsonNumber}),
     y \in FieldsOf({JsonString("t1"), JsonString("t2"), JsonNumber})}

\* Array.prototype.filter with the type guard typeof value === 'string'
RECURSIVE filterStrings(_)
filterStrings(items) ==
  IF items = <<>> THEN <<>>
  ELSE IF Head(items).str THEN <<Head(items).v>> \o filterStrings(Tail(items))
  ELSE filterStrings(Tail(items))

\* listTopics, from the response that callService resolved with.
listTopics(values) ==
  LET topicNamesRaw == IF values.present THEN values.topics ELSE Missing
      topicTypesRaw == IF values.present THEN values.types ELSE Missing
      topicNames == IF topicNamesRaw.array THEN filterStrings(topicNamesRaw.items) ELSE <<>>
      topicTypes == IF topicTypesRaw.array THEN topicTypesRaw.items ELSE <<>>
  IN [index \in 1..Len(topicNames) |->
        [name |-> topicNames[index],
         type |-> IF index <= Len(topicTypes) /\ topicTypes[index].str
                    THEN topicTypes[index].v ELSE ""]]

ListTopics ==
  /\ last.op # "listTopics"
  /\ listResult' = listTopics(listValues)
  /\ last' = Op("listTopics", "", "", 0, 0, "")
  /\ UNCHANGED <<listValues, ws, status, subscriptions, pendingServiceCalls,
                 serviceRequestSeq, connectPromise, reconnectTimer, reconnectTimeouts,
                 reconnectAttempt, reconnectDelay, readyState, promise, timers, call,
                 callId, callValue, settles, waiters, sent, invoked, uncaught,
                 statusListeners, notified>>
  /\ UNCHANGED exceptListClient

\* A listener is registered; the caller keeps the function returned.
OnStatusChange(handler) ==
  /\ Quiet
  /\ Len(statusOffs) < MaxRegs
  /\ statusOffs' = Append(statusOffs, handler)
  /\ CommitClient(onStatusChange(World, handler),
                  Op("onStatusChange", "", handler, 0, Len(statusOffs) + 1, ""))
  /\ UNCHANGED exceptStatus

\* The function the r-th onStatusChange call returned is invoked, for the
\* first time or again.
OffStatusChange(r) ==
  /\ Quiet
  /\ r \in 1..Len(statusOffs)
  /\ UNCHANGED statusOffs
  /\ CommitClient(offStatusChange(World, statusOffs[r]),
                  Op("offStatusChange", "", statusOffs[r], 0, r, ""))
  /\ UNCHANGED exceptStatus

\* ------------------------------------------------------ root layout load
PathChars == {"/", "a", "u", "t", "h", "s"}
Paths ==
  UNION { {<<"/">> \o q : q \in [1..n -> PathChars]} : n \in 0..(MaxPathLen - 1) }
AuthPrefix == <<"/", "a", "u", "t", "h">>
AuthReplies == {"authenticated", "unauthenticated", "throws"}

\* String.prototype.startsWith
startsWith(str, prefix) ==
  /\ Len(str) >= Len(prefix)
  /\ SubSeq(str, 1, Len(prefix)) = prefix

\* load up to `await api.auth.status()`.
LoadStart ==
  /\ loadPc = "start"
  /\ IF startsWith(loadPath, AuthPrefix)
       THEN /\ loadPc' = "done"
            /\ loadResult' = [kind |-> "returned", status |-> 0, location |-> <<>>]
            /\ UNCHANGED statusCalls
       ELSE /\ loadPc' = "awaiting"
            /\ statusCalls' = statusCalls + 1
            /\ UNCHANGED loadResult
  /\ UNCHANGED <<loadPath, authReply, exceptLoad>>

\* load after api.auth.status() has settled.
LoadResume(reply) ==
  /\ loadPc = "awaiting"
  /\ authReply' = reply
  /\ loadPc' = "done"
  /\ loadResult' =
       IF reply = "authenticated"
         THEN [kind |-> "returned", status |-> 0, location |-> <<>>]
         ELSE [kind |-> "redirect", status |-> RedirectStatus, location |-> AuthPrefix]
  /\ UNCHANGED <<loadPath, statusCalls, exceptLoad>>

\* The browser follows the redirect, which runs load for its location.
FollowRedirect ==
  /\ loadPc = "done"
  /\ loadResult.kind = "redirect"
  /\ loadPath' = loadResult.location
  /\ loadPc' = "start"
  /\ authReply' = "none"
  /\ statusCalls' = 0
  /\ loadResult' = [kind |-> "none", status |-> 0, location |-> <<>>]
  /\ UNCHANGED exceptLoad

\* ----------------------------------------------------------- session page
\* The recording session page: its blueprint state and the effect that
\* writes the draft.  A blueprint is the tree it holds (a number names the
\* tree) and whether the default configs of its views have been filled in.
BLUEPRINT_KIND == "recording"
Sessions == {"s1"}
SessionIds == Sessions \cup {""}
BlueprintIds == {"b1", "b2"}
Trees == 0..MaxBlueprints
Blueprints == [tree : Trees, filled : BOOLEAN]
createDefaultBlueprint == [tree |-> 0, filled |-> FALSE]
Signals == {"mounted", "sessionId", "activeBlueprintId", "blueprint"}

\* draftStorage: the draft cache, keyed by kind, session and blueprint id.
saveBlueprintDraft(store, kind, session, id, bp) ==
  With(store, <<kind, session, id>>, bp)
\* The drafts found: none or one.
loadBlueprintDraft(store, kind, session, id) ==
  IF <<kind, session, id>> \in DOMAIN store THEN {store[<<kind, session, id>>]} ELSE {}

\* fillDefaultConfig: the defaults go under the configs the views have.
fillDefaultConfig(bp) == [bp EXCEPT !.filled = TRUE]

PageStep(op, wrote, session, id, bp) ==
  [op |-> op, wrote |-> wrote, kind |-> BLUEPRINT_KIND,
   session |-> session, id |-> id, blueprint |-> bp]

\* Mutant: the draft effect reads its state untracked.
SaveEffectUntracked == {"mounted"}

\* The signals the draft effect reads in a run: && stops at the first
\* falsy one, and blueprint is read only when the draft is written.
SaveEffectReads ==
  IF ~mounted THEN {"mounted"}
  ELSE IF sessionId = "" THEN {"mounted", "sessionId"}
  ELSE IF activeBlueprintId = "" THEN {"mounted", "sessionId", "activeBlueprintId"}
  ELSE Signals

\* Writing the signals in `written` schedules the effects that read them.
Invalidate(written) == saveDirty' = (saveDirty \/ (written \cap saveDeps # {}))

\* The fill effect is scheduled while its condition holds: a run with the
\* condition true makes it false.
FillPending == mounted /\ ~filledDefaults /\ topicsLoaded
\* Effects run in microtasks, before the next event of the page.
EffectsRun == mounted /\ ~saveDirty /\ ~FillPending

\* onMount, and the first run of the effects it is followed by.
Mount ==
  /\ ~mounted
  /\ mounted' = TRUE
  /\ saveDirty' = TRUE
  /\ pageLast' = PageStep("mount", FALSE, "", "", createDefaultBlueprint)
  /\ UNCHANGED <<sessionId, activeBlueprintId, blueprint, filledDefaults,
                 topicsLoaded, drafts, saveDeps, blueprintSession, exceptSession>>

\* $effect: if (mounted && sessionId && activeBlueprintId) saveBlueprintDraft(...)
RunSaveEffect ==
  /\ saveDirty
  /\ saveDirty' = FALSE
  /\ saveDeps' = SaveEffectReads
  /\ IF mounted /\ sessionId # "" /\ activeBlueprintId # ""
       THEN /\ drafts' = saveBlueprintDraft(drafts, BLUEPRINT_KIND, sessionId,
                                            activeBlueprintId, blueprint)
            /\ pageLast' = PageStep("effect", TRUE, sessionId, activeBlueprintId, blueprint)
       ELSE /\ drafts' = drafts
            /\ pageLast' = PageStep("effect", FALSE, "", "", createDefaultBlueprint)
  /\ UNCHANGED <<mounted, sessionId, activeBlueprintId, blueprint, filledDefaults,
                 topicsLoaded, blueprintSession, exceptSession>>

\* $effect: if (!filledDefaults && topics.length > 0) blueprint = fillDefaultConfig(...)
\* It is declared after the draft effect and runs after it.
FillEffect ==
  /\ FillPending
  /\ ~saveDirty
  /\ blueprint' = fillDefaultConfig(blueprint)
  /\ filledDefaults' = TRUE
  /\ blueprintSession' = sessionId
  /\ Invalidate({"blueprint"})
  /\ pageLast' = PageStep("fill", FALSE, "", "", createDefaultBlueprint)
  /\ UNCHANGED <<mounted, sessionId, activeBlueprintId, topicsLoaded, drafts,
                 saveDeps, exceptSession>>

\* handleResize, handleTabChange and the edit handlers: blueprint = f(blueprint)
EditBlueprint(op, tree) ==
  /\ EffectsRun
  /\ blueprint' = [blueprint EXCEPT !.tree = tree]
  /\ blueprintSession' = sessionId
  /\ Invalidate({"blueprint"})
  /\ pageLast' = PageStep(op, FALSE, "", "", createDefaultBlueprint)
  /\ UNCHANGED <<mounted, sessionId, activeBlueprintId, filledDefaults, topicsLoaded,
                 drafts, saveDeps, exceptSession>>

\* applyBlueprintDetail, called by the blueprint manager with a blueprint
\* that was resolved, opened, duplicated or reset.
ApplyBlueprintDetail(id, bp, useDraft) ==
  /\ EffectsRun
  /\ activeBlueprintId' = id
  /\ blueprint' =
       LET found == IF useDraft /\ sessionId # ""
                      THEN loadBlueprintDraft(drafts, BLUEPRINT_KIND, sessionId, id)
                      ELSE {}
       IN IF found = {} THEN bp ELSE CHOOSE d \in found : TRUE
  /\ filledDefaults' = FALSE
  /\ blueprintSession' = sessionId
  /\ Invalidate({"blueprint"} \cup
                (IF id # activeBlueprintId THEN {"activeBlueprintId"} ELSE {}))
  /\ pageLast' = PageStep("open", FALSE, "", "", createDefaultBlueprint)
  /\ UNCHANGED <<mounted, sessionId, topicsLoaded, drafts, saveDeps, exceptSession>>

\* page.params.session_id changes: the page is shown for another session.
Navigate(session) ==
  /\ EffectsRun
  /\ session # sessionId
  /\ sessionId' = session
  /\ Invalidate({"sessionId"})
  /\ pageLast' = PageStep("navigate", FALSE, "", "", createDefaultBlueprint)
  /\ UNCHANGED <<mounted, activeBlueprintId, blueprint, filledDefaults, topicsLoaded,
                 drafts, saveDeps, blueprintSession, exceptSession>>

\* $topicsQuery.data arrives with a non-empty list of topics.
TopicsArrive ==
  /\ EffectsRun
  /\ ~topicsLoaded
  /\ topicsLoaded' = TRUE
  /\ pageLast' = PageStep("topics", FALSE, "", "", createDefaultBlueprint)
  /\ UNCHANGED <<mounted, sessionId, activeBlueprintId, blueprint, filledDefaults,
                 drafts, saveDeps, saveDirty, blueprintSession, exceptSession>>

\* The page is left: its state and effects are gone, the drafts stay, and
\* the page may be entered again.
LeavePage(session) ==
  /\ EffectsRun
  /\ mounted' = FALSE
  /\ sessionId' = session
  /\ activeBlueprintId' = ""
  /\ blueprint' = createDefaultBlueprint
  /\ blueprintSession' = session
  /\ filledDefaults' = FALSE
  /\ topicsLoaded' = FALSE
  /\ saveDeps' = {}
  /\ saveDirty' = FALSE
  /\ pageLast' = PageStep("leave", FALSE, "", "", createDefaultBlueprint)
  /\ UNCHANGED <<drafts, exceptSession>>


\* ----------------------------------------------------------------- config
\* lib/config: the backend URL kept in localStorage.
STORAGE_KEY == "PERCUS_BACKEND_URL"
DEFAULT_URL == "http://localhost:8000"
Urls ==
  { "", " ", "0", "false", "null", "undefined", "not a url",
    "http://localhost:8000", "http://localhost:8000/", "HTTP://LOCALHOST:8000",
    "http://localhost", "https://localhost:8000", "http://127.0.0.1:8000",
    "http://10.0.0.2:8000", "https://robot.example", "https://robot.example/api?x=1#y",
    "http://[::1]:8000", "ws://robot:9090", "//robot", "http://user:pw@robot:8000",
    "http://robot.example/%E3%83%AD", "PERCUS_BACKEND_URL" }

\* Storage.getItem: the value of the key, none (null) if the key is absent.
getItem(store, key) == IF key \in DOMAIN store THEN {store[key]} ELSE {}
\* Storage.setItem: the value is stored as the string it is.
setItem(store, key, value) == With(store, key, value)
\* Storage.removeItem
removeItem(store, key) == Without(store, {key})

\* a ?? b, for a value that may be null.
OrElse(found, b) == IF found = {} THEN b ELSE CHOOSE x \in found : TRUE

\* Mutant: || in place of ??, which replaces a stored '' by the default.
getBackendUrlFalsy(store, win) ==
  IF ~win THEN DEFAULT_URL
  ELSE OrElse(getItem(store, STORAGE_KEY) \ {""}, DEFAULT_URL)

\* getBackendUrl of the web build.
getBackendUrl(store, win) ==
  IF ~win THEN DEFAULT_URL
  ELSE OrElse(getItem(store, STORAGE_KEY), DEFAULT_URL)

\* getBackendUrl of the Tauri build, which always has a window.
getBackendUrlTauri(store) == OrElse(getItem(store, STORAGE_KEY), DEFAULT_URL)

CfgStep(op, arg, ret, threw) == [op |-> op, arg |-> arg, ret |-> ret, threw |-> threw]

GetBackendUrl ==
  /\ cfgLast' = CfgStep("get", "",
                        IF variant = "tauri" THEN getBackendUrlTauri(localStorage)
                        ELSE getBackendUrl(localStorage, hasWindow), FALSE)
  /\ UNCHANGED <<localStorage, hasWindow, variant, lastStored, exceptConfig>>

\* Without a window localStorage is not defined and the call throws.
SetBackendUrl(url) ==
  /\ IF hasWindow
       THEN /\ localStorage' = setItem(localStorage, STORAGE_KEY, url)
            /\ lastStored' = {url}
            /\ cfgLast' = CfgStep("set", url, "", FALSE)
       ELSE /\ cfgLast' = CfgStep("set", url, "", TRUE)
            /\ UNCHANGED <<localStorage, lastStored>>
  /\ UNCHANGED <<hasWindow, variant, exceptConfig>>

\* clearBackendUrl exists in the web build only.
ClearBackendUrl ==
  /\ variant = "web"
  /\ IF hasWindow
       THEN /\ localStorage' = removeItem(localStorage, STORAGE_KEY)
            /\ lastStored' = {}
            /\ cfgLast' = CfgStep("clear", "", "", FALSE)
       ELSE /\ cfgLast' = CfgStep("clear", "", "", TRUE)
            /\ UNCHANGED <<localStorage, lastStored>>
  /\ UNCHANGED <<hasWindow, variant, exceptConfig>>


\* ------------------------------------------------------------ topics page
\* The ROS topics page over the rosbridge client: the client's world and the
\* page's state, as one record.
TopicsPage ==
  [ w |-> World,
    p |-> [ topics |-> topics, selectedTopic |-> selectedTopic,
            previewPayload |-> previewPayload,
            unsubscribePreview |-> unsubscribePreview,
            loadingTopics |-> loadingTopics, refreshing |-> refreshing ] ]

CommitTopics(v, op) ==
  \E st \in {v} :
  /\ CommitClient(st.w, op)
  /\ topics' = st.p.topics
  /\ selectedTopic' = st.p.selectedTopic
  /\ previewPayload' = st.p.previewPayload
  /\ unsubscribePreview' = st.p.unsubscribePreview
  /\ loadingTopics' = st.p.loadingTopics
  /\ refreshing' = st.p.refreshing
  /\ UNCHANGED exceptTopics

PreviewOptions == [type |-> NoType, queue_length |-> 1, throttle_rate |-> 120]
ListTopicsService == "/rosapi/topics"

\* The handlers registered with the client, as <<topic, handler>> pairs.
RegisteredIn(w) ==
  {<<t, h>> \in Topics \X Handlers :
     t \in DOMAIN w.subscriptions /\ h \in w.subscriptions[t].handlers}
\* Every subscribeTopicPreview makes a new arrow function: a handler that
\* is registered nowhere.
FreshHandlers(w) == {h \in Handlers : \A t \in Topics : <<t, h>> \notin RegisteredIn(w)}
HandlerOrder == <<"h1", "h2">>
NewHandler(w) ==
  HandlerOrder[CHOOSE i \in 1..Len(HandlerOrder) :
                 /\ HandlerOrder[i] \in FreshHandlers(w)
                 /\ \A j \in 1..(i - 1) : HandlerOrder[j] \notin FreshHandlers(w)]

clearPreview(st) == [st EXCEPT !.p.previewPayload = {}]

subscribeTopicPreview(st, topicName) ==
  Then(IF st.p.unsubscribePreview = {} THEN st
       ELSE LET u == CHOOSE x \in st.p.unsubscribePreview : TRUE
            IN [st EXCEPT !.w = unsubscribe(@, u.topic, u.handler)], LAMBDA st1 :
  Then(clearPreview([st1 EXCEPT !.p.unsubscribePreview = {}]), LAMBDA st2 :
  IF topicName = "" THEN st2
  ELSE LET h == NewHandler(st2.w)
       IN [st2 EXCEPT !.w = subscribe(@, topicName, h, PreviewOptions),
                      !.p.unsubscribePreview = {[topic |-> topicName, handler |-> h]}]))

selectTopic(st, name) ==
  IF st.p.selectedTopic = name THEN st
  ELSE subscribeTopicPreview([st EXCEPT !.p.selectedTopic = name], name)

\* [...loaded].sort by localeCompare of the names.
TopicOrder == <<"/camera/compressed", "/joint_states">>
sortTopics(loaded) == SelectSeq(TopicOrder, LAMBDA t : t \in loaded)
InList(list, name) == \E i \in 1..Len(list) : list[i] = name

\* refreshTopics after listTopics has returned `loaded`.
refreshLoaded(st, loaded) ==
  Then([st EXCEPT !.p.topics = sortTopics(loaded)], LAMBDA st1 :
  Then(IF st1.p.selectedTopic # "" /\ ~InList(st1.p.topics, st1.p.selectedTopic)
         THEN clearPreview([st1 EXCEPT !.p.selectedTopic = ""])
         ELSE st1, LAMBDA st2 :
  Then(IF st2.p.selectedTopic = "" /\ Len(st2.p.topics) > 0
         THEN selectTopic(st2, st2.p.topics[1])
         ELSE st2, LAMBDA st3 :
  [st3 EXCEPT !.p.loadingTopics = FALSE])))

\* refreshTopics after listTopics has thrown.
refreshFailed(st) == [st EXCEPT !.p.loadingTopics = FALSE]

\* The continuations of the refreshTopics calls whose listTopics has settled.
RECURSIVE resumeRefreshes(_, _, _)
resumeRefreshes(st, slots, loaded) ==
  IF slots = {} THEN st
  ELSE LET k == CHOOSE x \in slots : \A y \in slots : x <= y
       IN IF st.w.call[k] \in Unsettled
            THEN resumeRefreshes(st, slots \ {k}, loaded)
            ELSE Then([st EXCEPT !.p.refreshing = @ \ {k}], LAMBDA st1 :
                 Then(IF st1.w.call[k] = "resolved" THEN refreshLoaded(st1, loaded)
                      ELSE refreshFailed(st1), LAMBDA st2 :
                 resumeRefreshes(st2, slots \ {k}, loaded)))

\* What a task of the client is followed by on the page.
afterTask(st, loaded) == resumeRefreshes(st, st.p.refreshing, loaded)

FreeSlots(w) == {k \in Slots : w.call[k] = "unused"}
NextSlot(w) == CHOOSE k \in FreeSlots(w) : \A j \in FreeSlots(w) : k <= j

\* refreshTopics up to `await client.listTopics()`.
refreshTopics(st) ==
  LET k == NextSlot(st.w)
  IN [st EXCEPT !.p.loadingTopics = TRUE,
                !.p.refreshing = @ \cup {k},
                !.w = callService(@, k, ListTopicsService, DefaultTimeoutMs)]

\* The page's status listener, called by updateStatus.
statusListener(st, next) ==
  IF next = "connected" /\ Len(st.p.topics) = 0 /\ ~st.p.loadingTopics
    THEN refreshTopics(st) ELSE st
ListenerRefreshes == Len(topics) = 0 /\ ~loadingTopics

\* The preview handler: parsePreviewPayload(message).
previewHandler(st, topic, msg) ==
  IF \E u \in st.p.unsubscribePreview : st.w.invoked[u.handler] # <<>>
    THEN [st EXCEPT !.p.previewPayload = {msg}] ELSE st

TopicsSelect(name) ==
  /\ Quiet
  /\ InList(topics, name)
  /\ ConnectOK(World)
  /\ CommitTopics(afterTask(selectTopic(TopicsPage, name), {}),
                  Op("select", name, "", 0, 0, ""))

\* The refresh button, and the effect that runs when the page is entered.
TopicsRefresh ==
  /\ Quiet
  /\ FreeSlots(World) # {}
  /\ ConnectOK(World)
  /\ CommitTopics(afterTask(refreshTopics(TopicsPage), {}),
                  Op("refresh", "", "", 0, 0, ""))

\* ws.onopen: the listener runs inside updateStatus('connected'); the
\* listTopics it starts goes on once onopen has returned.
TopicsSocketOpen(s) ==
  /\ Quiet
  /\ readyState[s] = "connecting"
  /\ ListenerRefreshes => FreeSlots(World) # {}
  /\ \E st0 \in {[TopicsPage EXCEPT
                    !.w = onopen([World EXCEPT !.readyState[s] = "open"], s)]} :
     \E st1 \in {statusListener(st0, "connected")} :
     \E st2 \in {[st1 EXCEPT !.w = resumeWaiters(@, st1.w.waiters, s, TRUE)]} :
       CommitTopics(afterTask(st2, {}), Op("open", "", "", s, 0, ""))

TopicsSocketError(s, cap) ==
  /\ Quiet
  /\ readyState[s] \in {"connecting", "open"}
  /\ reconnectAttempt < cap
  /\ \E w1 \in {onerror([World EXCEPT !.readyState[s] = "errored"], s)} :
     \E st1 \in {[TopicsPage EXCEPT !.w = resumeWaiters(w1, w1.waiters, s, FALSE)]} :
       CommitTopics(afterTask(st1, {}), Op("error", "", "", s, 0, ""))

TopicsSocketClose(s) ==
  /\ readyState[s] = "errored" \/ (Quiet /\ readyState[s] = "open")
  /\ \E st1 \in {[TopicsPage EXCEPT
                    !.w = onclose([World EXCEPT !.readyState[s] = "closed"], s)]} :
       CommitTopics(afterTask(st1, {}), Op("close", "", "", s, 0, readyState[s]))

TopicsReceivePublish(s, topic, msg) ==
  /\ Quiet
  /\ readyState[s] = "open"
  /\ \E st1 \in {[TopicsPage EXCEPT !.w = onpublish(World, topic, msg)]} :
       CommitTopics(afterTask(previewHandler(st1, topic, msg), {}),
                    Op("publish", topic, "", s, 0, msg))

\* The response to a listTopics call, with the topic names it carries.
TopicsServiceResponse(s, id, result, loaded) ==
  /\ Quiet
  /\ readyState[s] = "open"
  /\ ConnectOK(World)
  /\ \E st1 \in {[TopicsPage EXCEPT !.w = handleServiceResponse(World, id, result)]} :
       CommitTopics(afterTask(st1, loaded), Op("service_response", "", "", s, id, result))

TopicsServiceTimeout(id) ==
  /\ Quiet
  /\ id \in DOMAIN timers
  /\ \E st1 \in {[TopicsPage EXCEPT !.w = serviceTimeout(World, id)]} :
       CommitTopics(afterTask(st1, {}), Op("timeout", "", "", 0, id, ""))

TopicsReconnectTimerFire ==
  /\ Quiet
  /\ reconnectTimeouts > 0
  /\ ConnectOK([World EXCEPT !.reconnectTimer = FALSE])
  /\ \E st1 \in {[TopicsPage EXCEPT !.w = reconnectFire(World)]} :
       CommitTopics(afterTask(st1, {}), Op("reconnect", "", "", 0, 0, ""))


\* ------------------------------------------------------------- CameraView
\* One CameraView over the rosbridge client.  Its handler is the one
\* handleMessage function of the component.
CameraTopics == {"", "/joint_states", "/camera/compressed", "/compressed", "compressed"}
CameraHandler == "h1"
CameraOptions ==
  [type |-> "sensor_msgs/CompressedImage", queue_length |-> 1, throttle_rate |-> 120]
CompressedOnly == "compressed-only"
CompressedSuffix == <<"/", "c", "o", "m", "p", "r", "e", "s", "s", "e", "d">>

\* The characters of a topic name.
Chars(t) ==
  CASE t = "" -> <<>>
    [] t = "/joint_states" -> <<"/", "j", "o", "i", "n", "t", "_", "s", "t", "a", "t", "e", "s">>
    [] t = "/camera/compressed" -> <<"/", "c", "a", "m", "e", "r", "a", "/", "c", "o", "m", "p", "r", "e", "s", "s", "e", "d">>
    [] t = "/compressed" -> <<"/", "c", "o", "m", "p", "r", "e", "s", "s", "e", "d">>
    [] t = "compressed" -> <<"c", "o", "m", "p", "r", "e", "s", "s", "e", "d">>

\* String.prototype.endsWith
endsWith(str, suffix) ==
  /\ Len(str) >= Len(suffix)
  /\ SubSeq(str, Len(str) - Len(suffix) + 1, Len(str)) = suffix

Camera ==
  [ w |-> World,
    c |-> [ topic |-> camTopic, imageSrc |-> imageSrc, error |-> camError,
            status |-> camStatus, unsubscribe |-> camUnsubscribe,
            requiresCompressed |-> requiresCompressed ] ]

CommitCamera(v, op) ==
  \E st \in {v} :
  /\ CommitClient(st.w, op)
  /\ camTopic' = st.c.topic
  /\ imageSrc' = st.c.imageSrc
  /\ camError' = st.c.error
  /\ camStatus' = st.c.status
  /\ camUnsubscribe' = st.c.unsubscribe
  /\ requiresCompressed' = st.c.requiresCompressed
  /\ UNCHANGED exceptCamera

\* unsubscribe?.()
callUnsubscribe(st) ==
  IF st.c.unsubscribe = {} THEN st
  ELSE LET u == CHOOSE x \in st.c.unsubscribe : TRUE
       IN [st EXCEPT !.w = unsubscribe(@, u.topic, u.handler)]

\* CameraView's subscribe(); what client.subscribe returns for an empty
\* topic is a function that does nothing.
cameraSubscribe(st) ==
  IF st.c.topic = "" THEN st
  ELSE Then([st EXCEPT !.c.status = "connecting", !.c.error = ""], LAMBDA st1 :
       Then(callUnsubscribe(st1), LAMBDA st2 :
       Then([st2 EXCEPT !.w = subscribe(@, st2.c.topic, CameraHandler, CameraOptions),
                        !.c.unsubscribe = {[topic |-> st2.c.topic,
                                            handler |-> CameraHandler]}], LAMBDA st3 :
       [st3 EXCEPT !.c.status = st3.w.status])))

\* Mutant: a topic that is not compressed leaves the subscription in place.
cameraReactKeeps(st) ==
  Then([st EXCEPT !.c.requiresCompressed =
          st.c.topic # "" /\ ~endsWith(Chars(st.c.topic), CompressedSuffix)], LAMBDA st1 :
  IF st1.c.topic # ""
    THEN IF st1.c.requiresCompressed
           THEN [st1 EXCEPT !.c.error = CompressedOnly, !.c.imageSrc = ""]
           ELSE cameraSubscribe([st1 EXCEPT !.c.error = ""])
    ELSE Then(callUnsubscribe(st1), LAMBDA st2 :
         [st2 EXCEPT !.c.unsubscribe = {}, !.c.imageSrc = ""]))

\* The reactive statements: `$: requiresCompressed = ...` and `$: if (topic) ...`
cameraReact(st) ==
  Then([st EXCEPT !.c.requiresCompressed =
          st.c.topic # "" /\ ~endsWith(Chars(st.c.topic), CompressedSuffix)], LAMBDA st1 :
  IF st1.c.topic # ""
    THEN IF st1.c.requiresCompressed
           THEN Then(callUnsubscribe([st1 EXCEPT !.c.error = CompressedOnly]), LAMBDA st2 :
                [st2 EXCEPT !.c.unsubscribe = {}, !.c.imageSrc = ""])
           ELSE cameraSubscribe([st1 EXCEPT !.c.error = ""])
    ELSE Then(callUnsubscribe(st1), LAMBDA st2 :
         [st2 EXCEPT !.c.unsubscribe = {}, !.c.imageSrc = ""]))

\* handleMessage: a frame without data or within 80 ms of the last one
\* shown is dropped.
handleMessage(st, hasData, tooSoon, format) ==
  IF ~hasData \/ tooSoon THEN st
  ELSE [st EXCEPT !.c.imageSrc = IF format = "png" THEN "data:image/png"
                                 ELSE "data:image/jpeg"]

\* The component is created with its topic; the reactive statements run.
CameraCreate(t) ==
  /\ Quiet
  /\ ~camAlive
  /\ ConnectOK(World)
  /\ camAlive' = TRUE
  /\ CommitCamera(cameraReact([Camera EXCEPT !.c.topic = t]),
                  Op("create", t, "", 0, 0, ""))

\* The parent gives another topic; the reactive statements run.
CameraSetTopic(t) ==
  /\ Quiet
  /\ camAlive
  /\ t # camTopic
  /\ ConnectOK(World)
  /\ camAlive' = TRUE
  /\ CommitCamera(cameraReact([Camera EXCEPT !.c.topic = t]),
                  Op("topic", t, "", 0, 0, ""))

\* onDestroy; the component's state is gone with it.
CameraDestroy ==
  /\ Quiet
  /\ camAlive
  /\ camAlive' = FALSE
  /\ CommitCamera([callUnsubscribe(Camera) EXCEPT
                     !.c = [topic |-> "", imageSrc |-> "", error |-> "",
                            status |-> "idle", unsubscribe |-> {},
                            requiresCompressed |-> FALSE]],
                  Op("destroy", "", "", 0, 0, ""))

CameraReceivePublish(s, t, hasData, tooSoon, format) ==
  /\ Quiet
  /\ readyState[s] = "open"
  /\ camAlive' = camAlive
  /\ \E st1 \in {[Camera EXCEPT !.w = onpublish(World, t, "m1")]} :
       CommitCamera(IF st1.w.invoked[CameraHandler] # <<>>
                      THEN handleMessage(st1, hasData, tooSoon, format) ELSE st1,
                    Op("publish", t, "", s, 0, format))


\* -------------------------------------------------------- telemetry views
\* One LogView and one JointState view over the rosbridge client.  The
\* handler of each is the one handleMessage function of the component.
ViewTopics == {"", "/joint_states", "/camera/compressed"}
LogHandler == "h2"
JointHandler == "h3"
LogOptions == [type |-> NoType, queue_length |-> Undefined, throttle_rate |-> 200]
JointOptions ==
  [type |-> "sensor_msgs/JointState", queue_length |-> Undefined, throttle_rate |-> 60]

\* The text of a number input and Number(text) of it; an input that holds
\* no number has the value ''.
NumberInputs == {"", "-1", "0", "1", "2"}
Number(text) ==
  CASE text = "" -> 0
    [] text = "-1" -> -1
    [] text = "0" -> 0
    [] text = "1" -> 1
    [] text = "2" -> 2
Sizes == {Number(text) : text \in NumberInputs}

\* Array.prototype.slice(start)
slice(array, start) ==
  LET len == Len(array)
      from == IF start < 0 THEN (IF len + start < 0 THEN 0 ELSE len + start)
              ELSE Min(start, len)
  IN SubSeq(array, from + 1, len)

Views ==
  [ w |-> World,
    l |-> [ alive |-> logAlive, topic |-> logTopic, unsubscribe |-> logUnsubscribe,
            lines |-> lines, maxLines |-> maxLines, received |-> received ],
    j |-> [ alive |-> jointAlive, topic |-> jointTopic,
            unsubscribe |-> jointUnsubscribe, jointNames |-> jointNames,
            posSeries |-> posSeries, index |-> jointIndex, maxPoints |-> maxPoints ] ]

CommitViews(v, op) ==
  \E st \in {v} :
  /\ CommitClient(st.w, op)
  /\ logAlive' = st.l.alive
  /\ logTopic' = st.l.topic
  /\ logUnsubscribe' = st.l.unsubscribe
  /\ lines' = st.l.lines
  /\ maxLines' = st.l.maxLines
  /\ received' = st.l.received
  /\ jointAlive' = st.j.alive
  /\ jointTopic' = st.j.topic
  /\ jointUnsubscribe' = st.j.unsubscribe
  /\ jointNames' = st.j.jointNames
  /\ posSeries' = st.j.posSeries
  /\ jointIndex' = st.j.index
  /\ maxPoints' = st.j.maxPoints
  /\ UNCHANGED exceptViews

\* LogView: unsubscribe?.()
logUnsubscribeCall(st) ==
  IF st.l.unsubscribe = {} THEN st
  ELSE LET u == CHOOSE x \in st.l.unsubscribe : TRUE
       IN [st EXCEPT !.w = unsubscribe(@, u.topic, u.handler)]

\* Mutant: subscribe() does not call the unsubscribe function it holds.
logSubscribeKeeps(st) ==
  IF st.l.topic = "" THEN st
  ELSE [st EXCEPT !.w = subscribe(@, st.l.topic, LogHandler, LogOptions),
                  !.l.unsubscribe = {[topic |-> st.l.topic, handler |-> LogHandler]}]

\* LogView's subscribe()
logSubscribe(st) ==
  IF st.l.topic = "" THEN st
  ELSE Then(logUnsubscribeCall(st), LAMBDA st1 :
       [st1 EXCEPT !.w = subscribe(@, st1.l.topic, LogHandler, LogOptions),
                   !.l.unsubscribe = {[topic |-> st1.l.topic, handler |-> LogHandler]}])

\* LogView's reactive statement `$: if (topic) ... else ...`
logReact(st) ==
  IF st.l.topic # "" THEN logSubscribe(st)
  ELSE Then(logUnsubscribeCall(st), LAMBDA st1 :
       [st1 EXCEPT !.l.unsubscribe = {}, !.l.lines = <<>>, !.l.received = <<>>])

\* A message as LogView reads it: msg.msg, msg.message and msg.data, and
\* as JointState reads it: the length of msg.position and msg.name.
NotString == JsonNumber
Stringified == "{}"
LogFields ==
  { [msg |-> JsonString("a"), message |-> NotString, data |-> NotString],
    [msg |-> NotString, message |-> JsonString("b"), data |-> JsonString("a")],
    [msg |-> NotString, message |-> NotString, data |-> NotString] }
GeneratedNames == "joint_1"
JointFields ==
  { [positions |-> 0, name |-> ""],
    [positions |-> 1, name |-> ""],
    [positions |-> 1, name |-> "elbow"] }
ViewMessages == {[log |-> l, joint |-> j] : l \in LogFields, j \in JointFields}

\* LogView's handleMessage
logHandleMessage(st, msg) ==
  LET line == IF msg.msg.str THEN msg.msg.v
              ELSE IF msg.message.str THEN msg.message.v
              ELSE IF msg.data.str THEN msg.data.v
              ELSE Stringified
      next == Append(st.l.lines, line)
  IN [st EXCEPT !.l.lines = slice(next, 0 - st.l.maxLines),
                !.l.received = Append(@, line)]

\* JointState: unsubscribe?.()
jointUnsubscribeCall(st) ==
  IF st.j.unsubscribe = {} THEN st
  ELSE LET u == CHOOSE x \in st.j.unsubscribe : TRUE
       IN [st EXCEPT !.w = unsubscribe(@, u.topic, u.handler)]

\* JointState's subscribe()
jointSubscribe(st) ==
  IF st.j.topic = "" THEN st
  ELSE Then(jointUnsubscribeCall(st), LAMBDA st1 :
       [st1 EXCEPT !.w = subscribe(@, st1.j.topic, JointHandler, JointOptions),
                   !.j.unsubscribe = {[topic |-> st1.j.topic, handler |-> JointHandler]}])

\* The function the effect returned when it ran with the topic `was`.
jointTeardown(st, was) ==
  IF was = "" THEN st
  ELSE Then(jointUnsubscribeCall(st), LAMBDA st1 : [st1 EXCEPT !.j.unsubscribe = {}])

\* JointState's $effect, run with the topic of st.
jointEffect(st) ==
  IF st.j.topic = ""
    THEN Then(jointUnsubscribeCall(st), LAMBDA st1 :
         [st1 EXCEPT !.j.unsubscribe = {}, !.j.posSeries = <<>>,
                     !.j.jointNames = "", !.j.index = 0])
    ELSE jointSubscribe(st)

\* updateSeries, for the data of one series
updateSeries(data, nextIndex, size) == slice(Append(data, nextIndex), 0 - size)

\* JointState's handleMessage
jointHandleMessage(st, msg) ==
  IF msg.positions = 0 THEN st
  ELSE LET names == IF msg.name = "" THEN GeneratedNames ELSE msg.name
           needsReset == names # st.j.jointNames
       IN Then(IF needsReset
                 THEN [st EXCEPT !.j.jointNames = names, !.j.posSeries = <<>>,
                                 !.j.index = 0]
                 ELSE st, LAMBDA st1 :
          Then([st1 EXCEPT !.j.index = @ + 1], LAMBDA st2 :
          [st2 EXCEPT !.j.posSeries = updateSeries(@, st2.j.index, st2.j.maxPoints)]))

\* The component is created with its props; the reactive statement runs.
LogCreate(t, size) ==
  /\ Quiet
  /\ ~logAlive
  /\ ConnectOK(World)
  /\ CommitViews(logReact([Views EXCEPT !.l.alive = TRUE, !.l.topic = t,
                                        !.l.maxLines = size]),
                 Op("create", t, LogHandler, 0, 0, ""))

\* The parent gives another topic; the reactive statement runs.
LogSetTopic(t) ==
  /\ Quiet
  /\ logAlive
  /\ t # logTopic
  /\ ConnectOK(World)
  /\ CommitViews(logReact([Views EXCEPT !.l.topic = t]),
                 Op("topic", t, LogHandler, 0, 0, logTopic))

\* The parent gives another maxLines.
LogSetMaxLines(size) ==
  /\ Quiet
  /\ logAlive
  /\ size # maxLines
  /\ CommitViews([Views EXCEPT !.l.maxLines = size, !.l.received = lines],
                 Op("size", "", LogHandler, 0, 0, ""))

\* onDestroy; the component's state is gone with it.
LogDestroy ==
  /\ Quiet
  /\ logAlive
  /\ CommitViews([logUnsubscribeCall(Views) EXCEPT
                    !.l = [alive |-> FALSE, topic |-> "", unsubscribe |-> {},
                           lines |-> <<>>, maxLines |-> MaxMsgs, received |-> <<>>]],
                 Op("destroy", "", LogHandler, 0, 0, logTopic))

\* The component is mounted with its props; the effect runs.
JointCreate(t, size) ==
  /\ Quiet
  /\ ~jointAlive
  /\ ConnectOK(World)
  /\ CommitViews(jointEffect([Views EXCEPT !.j.alive = TRUE, !.j.topic = t,
                                           !.j.maxPoints = size]),
                 Op("create", t, JointHandler, 0, 0, ""))

\* The parent gives another topic: the function the effect returned runs,
\* then the effect.
JointSetTopic(t) ==
  /\ Quiet
  /\ jointAlive
  /\ t # jointTopic
  /\ ConnectOK(World)
  /\ CommitViews(jointEffect([jointTeardown(Views, jointTopic) EXCEPT !.j.topic = t]),
                 Op("topic", t, JointHandler, 0, 0, jointTopic))

\* The number field of the session page: handleConfigChange(key,
\* Number(value)); the view is given the number as maxPoints.
JointNumberField(text) ==
  /\ Quiet
  /\ jointAlive
  /\ Number(text) # maxPoints
  /\ CommitViews([Views EXCEPT !.j.maxPoints = Number(text)],
                 Op("size", "", JointHandler, 0, 0, text))

\* The component is destroyed: the function the effect returned runs.
JointDestroy ==
  /\ Quiet
  /\ jointAlive
  /\ CommitViews([jointTeardown(Views, jointTopic) EXCEPT
                    !.j = [alive |-> FALSE, topic |-> "", unsubscribe |-> {},
                           jointNames |-> "", posSeries |-> <<>>, index |-> 0,
                           maxPoints |-> MaxMsgs]],
                 Op("destroy", "", JointHandler, 0, 0, jointTopic))

\* ws.onmessage hands a 'publish' frame to the handlers of its topic.
HandedTo(w, topic, handler) ==
  topic \in DOMAIN w.subscriptions /\ handler \in w.subscriptions[topic].handlers

ViewsReceivePublish(s, t, msg) ==
  /\ Quiet
  /\ readyState[s] = "open"
  /\ Len(received) < MaxMsgs
  /\ jointIndex < MaxMsgs
  /\ \E st1 \in {[Views EXCEPT !.w = onpublish(World, t, "m1")]} :
     \E st2 \in {IF HandedTo(st1.w, t, LogHandler)
                   THEN logHandleMessage(st1, msg.log) ELSE st1} :
       CommitViews(IF HandedTo(st2.w, t, JointHandler)
                     THEN jointHandleMessage(st2, msg.joint) ELSE st2,
                   Op("publish", t, "", s, 0, ""))


\* -------------------------------------------------------------- SplitPane
\* One SplitPane.  Numbers that the code divides are kept as fractions
\* n / d with d > 0.
Frac(n, d) == [n |-> n, d |-> d]
One == Frac(1, 1)
FracLess(a, b) == a.n * b.d < b.n * a.d
FracEq(a, b) == a.n * b.d = b.n * a.d
FracLeq(a, b) == a.n * b.d <= b.n * a.d
FracSub(a, b) == Frac(a.n * b.d - b.n * a.d, a.d * b.d)
FracAdd(a, b) == Frac(a.n * b.d + b.n * a.d, a.d * b.d)
\* export let min = 0.15; LayoutNode gives the SplitPane no other.
SplitMin == Frac(15, 100)

\* Math.max and Math.min
MathMax(a, b) == IF FracLess(a, b) THEN b ELSE a
MathMin(a, b) == IF FracLess(b, a) THEN b ELSE a

\* Mutant: the value is not clamped.
clampNone(value, minValue, maxValue) == value

clamp(value, minValue, maxValue) == MathMin(MathMax(value, minValue), maxValue)

\* A pointer event, and what container.getBoundingClientRect() returns
\* when it is handled.
PointerEvent(x, y) == [clientX |-> x, clientY |-> y]
Rect(left, top, width, height) ==
  [left |-> left, top |-> top, width |-> width, height |-> height]
SplitStep(op, event, rect) == [op |-> op, event |-> event, rect |-> rect]
NoEvent == PointerEvent(0, 0)
NoRect == Rect(0, 0, 0, 0)

Pane ==
  [ dragging |-> dragging, editable |-> editable, direction |-> direction,
    dispatched |-> <<>> ]

\* handlePointerMove; the container is bound while the component is mounted.
handlePointerMove(p, event, rect) ==
  IF ~p.editable THEN p
  ELSE IF ~p.dragging THEN p
  ELSE LET total == IF p.direction = "row" THEN rect.width ELSE rect.height
           offset == IF p.direction = "row" THEN event.clientX - rect.left
                     ELSE event.clientY - rect.top
       IN IF total <= 0 THEN p
          ELSE LET ratio == clamp(Frac(offset, total), SplitMin, FracSub(One, SplitMin))
               IN [p EXCEPT !.dispatched =
                     Append(@, <<ratio, FracSub(One, ratio)>>)]

handlePointerDown(p, event, rect) ==
  IF ~p.editable THEN p
  ELSE handlePointerMove([p EXCEPT !.dragging = TRUE], event, rect)

handlePointerUp(p) ==
  IF ~p.dragging THEN p ELSE [p EXCEPT !.dragging = FALSE]

CommitPane(p, step) ==
  /\ dragging' = p.dragging
  /\ editable' = p.editable
  /\ direction' = p.direction
  /\ dispatched' = p.dispatched
  /\ splitLast' = step
  /\ UNCHANGED exceptSplit

\* pointerdown on the handle
SplitPointerDown(event, rect) ==
  /\ pressed' = TRUE
  /\ CommitPane(handlePointerDown(Pane, event, rect),
                SplitStep("pointerdown", event, rect))

\* pointermove on the container
SplitPointerMove(event, rect) ==
  /\ pressed' = pressed
  /\ CommitPane(handlePointerMove(Pane, event, rect),
                SplitStep("pointermove", event, rect))

\* pointerup or pointerleave on the container
SplitPointerUp(kind) ==
  /\ pressed' = FALSE
  /\ CommitPane(handlePointerUp(Pane), SplitStep(kind, NoEvent, NoRect))

\* The parent gives another editMode.
SplitSetEditable(b) ==
  /\ b # editable
  /\ pressed' = pressed
  /\ CommitPane([Pane EXCEPT !.editable = b], SplitStep("editable", NoEvent, NoRect))

\* The parent gives another direction.
SplitSetDirection(d) ==
  /\ d # direction
  /\ pressed' = pressed
  /\ CommitPane([Pane EXCEPT !.direction = d], SplitStep("direction", NoEvent, NoRect))

\* ---------------------------------------------------------- layout editor
\* The session page's blueprint as the tree of nodes LayoutNode renders,
\* the selection and the edit handlers.
EmptyConfig == [k \in {} |-> ""]
ViewNode(id, viewType, config) ==
  [id |-> id, type |-> "view", viewType |-> viewType, config |-> config]
SplitNode(id, first, second) ==
  [id |-> id, type |-> "split", children |-> <<first, second>>]
TabItem(id, child) == [id |-> id, child |-> child]
TabsNode(id, activeId, tabs) ==
  [id |-> id, type |-> "tabs", activeId |-> activeId, tabs |-> tabs]

\* The trees a blueprint detail or an edit gives the page.
LayoutTrees ==
  { ViewNode("v1", "camera", EmptyConfig),
    SplitNode("s1",
      ViewNode("v1", "camera", "topic" :> "/mine"),
      TabsNode("t1", "a",
        <<TabItem("a", ViewNode("v2", "joint_state", "maxPoints" :> "40")),
          TabItem("b", ViewNode("v3", "placeholder", EmptyConfig))>>)),
    TabsNode("t1", "b",
      <<TabItem("a", ViewNode("v1", "controls", "topic" :> "/mine")),
        TabItem("b", SplitNode("s1",
                       ViewNode("v2", "joint_state", EmptyConfig),
                       ViewNode("v3", "camera", EmptyConfig)))>>) }
NodeIds == {"v1", "v2", "v3", "s1", "t1"}
DefaultLayout == ViewNode("v1", "camera", EmptyConfig)

\* $topicsQuery.data?.topics once the query has an answer with topics.
QueryTopics == <<"/joint_states", "/camera/compressed">>

\* viewRegistry: the view types whose definition has a defaultConfig, and
\* what defaultConfig(topics) returns.
HasDefaultConfig(viewType) == viewType \in {"camera", "joint_state"}
defaultConfig(viewType, topicList) ==
  IF viewType = "camera" THEN "topic" :> topicList[Len(topicList)]
  ELSE ("topic" :> topicList[1]) @@ ("maxPoints" :> "160")

\* { ...defaults, ...config }
Spread(defaults, config) ==
  [k \in DOMAIN defaults \cup DOMAIN config |->
     IF k \in DOMAIN config THEN config[k] ELSE defaults[k]]

\* Mutant: the defaults are spread over the config the node has.
RECURSIVE fillDefaultsOver(_, _)
fillDefaultsOver(node, topicList) ==
  IF node.type = "view"
    THEN IF ~HasDefaultConfig(node.viewType) THEN node
         ELSE [node EXCEPT !.config = Spread(@, defaultConfig(node.viewType, topicList))]
  ELSE IF node.type = "split"
    THEN [node EXCEPT !.children = <<fillDefaultsOver(node.children[1], topicList),
                                     fillDefaultsOver(node.children[2], topicList)>>]
  ELSE [node EXCEPT !.tabs =
          [i \in DOMAIN node.tabs |->
             [node.tabs[i] EXCEPT !.child = fillDefaultsOver(node.tabs[i].child, topicList)]]]

\* fillDefaultConfig(node, topics), on the tree of nodes
RECURSIVE fillDefaultConfigNode(_, _)
fillDefaultConfigNode(node, topicList) ==
  IF node.type = "view"
    THEN IF ~HasDefaultConfig(node.viewType) THEN node
         ELSE [node EXCEPT !.config = Spread(defaultConfig(node.viewType, topicList), @)]
  ELSE IF node.type = "split"
    THEN [node EXCEPT !.children = <<fillDefaultConfigNode(node.children[1], topicList),
                                     fillDefaultConfigNode(node.children[2], topicList)>>]
  ELSE [node EXCEPT !.tabs =
          [i \in DOMAIN node.tabs |->
             [node.tabs[i] EXCEPT !.child = fillDefaultConfigNode(node.tabs[i].child, topicList)]]]

\* findNode(root, id): the nodes found, none or one.
RECURSIVE findNode(_, _)
findNode(node, id) ==
  IF node.id = id THEN {node}
  ELSE IF node.type = "view" THEN {}
  ELSE IF node.type = "split"
    THEN findNode(node.children[1], id) \cup findNode(node.children[2], id)
  ELSE UNION {findNode(node.tabs[i].child, id) : i \in DOMAIN node.tabs}

ensureValidSelection(root, id) ==
  IF findNode(root, id) # {} THEN id ELSE root.id

\* The LayoutNode components from the root down to the one of `id`, as
\* rendered: a tabs node renders the child of its active tab only.
RECURSIVE RenderedPath(_, _)
RenderedPath(node, id) ==
  IF node.id = id THEN <<node.id>>
  ELSE IF node.type = "view" THEN <<>>
  ELSE LET below ==
             IF node.type = "split"
               THEN LET a == RenderedPath(node.children[1], id)
                    IN IF a # <<>> THEN a ELSE RenderedPath(node.children[2], id)
               ELSE LET active == {i \in DOMAIN node.tabs : node.tabs[i].id = node.activeId}
                    IN IF active = {} THEN <<>>
                       ELSE RenderedPath(node.tabs[CHOOSE i \in active : TRUE].child, id)
       IN IF below = <<>> THEN <<>> ELSE <<node.id>> \o below

\* An event on its way up: whether stopPropagation was called, and the
\* onSelect calls made so far.
DomEvent == [stopped |-> FALSE, calls |-> <<>>]

\* Mutant: handleSelect lets the event go on to the ancestors.
handleSelectBubbles(ev, id, edit) ==
  IF edit THEN [ev EXCEPT !.calls = Append(@, id)] ELSE ev

\* LayoutNode handleSelect of the node `id`
handleSelect(ev, id, edit) ==
  LET ev1 == [ev EXCEPT !.stopped = TRUE]
  IN IF edit THEN [ev1 EXCEPT !.calls = Append(@, id)] ELSE ev1

\* LayoutNode handleKeydown of the node `id`
handleKeydown(ev, id, edit, key) ==
  IF key # "Enter" /\ key # " " THEN ev ELSE handleSelect(ev, id, edit)

\* The event goes from the innermost LayoutNode to the root, until a
\* handler has stopped it.  key "" is a click.
RECURSIVE Bubble(_, _, _, _, _)
Bubble(ev, path, i, edit, key) ==
  IF i = 0 \/ ev.stopped THEN ev
  ELSE Bubble(IF key = "" THEN handleSelect(ev, path[i], edit)
              ELSE handleKeydown(ev, path[i], edit, key),
              path, i - 1, edit, key)

EditorStep(op, target, key, confirmed) ==
  [op |-> op, target |-> target, key |-> key, confirmed |-> confirmed,
   fill |-> <<>>]

Editor ==
  [ blueprint |-> blueprint, selectedId |-> selectedId, editMode |-> editMode,
    filledDefaults |-> filledDefaults, topicsLoaded |-> topicsLoaded,
    fills |-> fills, fill |-> <<>> ]

\* The effects of the page that follow a change: the selection falls on
\* the root while it is empty, and the defaults are filled in.
editorEffects(st) ==
  Then(IF st.selectedId = "" THEN [st EXCEPT !.selectedId = st.blueprint.id] ELSE st,
       LAMBDA st1 :
  IF ~st1.filledDefaults /\ st1.topicsLoaded
    THEN LET filled == fillDefaultConfigNode(st1.blueprint, QueryTopics)
         IN [st1 EXCEPT !.blueprint = filled,
                        !.filledDefaults = TRUE,
                        !.fills = @ + 1,
                        !.fill = <<[input |-> st1.blueprint, output |-> filled]>>,
                        !.selectedId = ensureValidSelection(filled, @)]
    ELSE st1)

CommitEditor(v, step, calls) ==
  \E st \in {editorEffects(v)} :
  /\ blueprint' = st.blueprint
  /\ selectedId' = st.selectedId
  /\ editMode' = st.editMode
  /\ filledDefaults' = st.filledDefaults
  /\ topicsLoaded' = st.topicsLoaded
  /\ fills' = st.fills
  /\ onSelectCalls' = calls
  /\ editorLast' = [step EXCEPT !.fill = st.fill]
  /\ mounted' = TRUE
  /\ UNCHANGED <<sessionId, activeBlueprintId, drafts, saveDeps, saveDirty,
                 pageLast, blueprintSession>>
  /\ UNCHANGED exceptEditor

\* updateSelection, the onSelect of the layout
updateSelections(st, calls) ==
  IF calls = <<>> THEN st ELSE [st EXCEPT !.selectedId = calls[Len(calls)]]

\* onMount, and the first run of the effects.
EditorMount ==
  /\ ~mounted
  /\ CommitEditor(Editor, EditorStep("mount", "", "", FALSE), <<>>)

\* A click on the rendered node `target`.
LayoutClick(target) ==
  /\ mounted
  /\ RenderedPath(blueprint, target) # <<>>
  /\ \E path \in {RenderedPath(blueprint, target)} :
     \E ev \in {Bubble(DomEvent, path, Len(path), editMode, "")} :
       CommitEditor(updateSelections(Editor, ev.calls),
                    EditorStep("click", target, "", FALSE), ev.calls)

\* A key pressed with the focus in the rendered node `target`.
LayoutKeydown(target, key) ==
  /\ mounted
  /\ RenderedPath(blueprint, target) # <<>>
  /\ \E path \in {RenderedPath(blueprint, target)} :
     \E ev \in {Bubble(DomEvent, path, Len(path), editMode, key)} :
       CommitEditor(updateSelections(Editor, ev.calls),
                    EditorStep("keydown", target, key, FALSE), ev.calls)

ToggleEditMode ==
  /\ mounted
  /\ CommitEditor([Editor EXCEPT !.editMode = ~editMode],
               EditorStep("toggle", "", "", FALSE), <<>>)

\* selectedNode, selectedViewNode, selectedTabsNode: the types the
\* selected node has, none if no node is selected.
SelectedTypes(root, id) ==
  IF id = "" THEN {} ELSE {n.type : n \in findNode(root, id)}

\* What an edit handler needs to be selected: any node, a view or a tabs
\* node.
EditHandlers ==
  [ split |-> {"view", "split", "tabs"}, tabs |-> {"view", "split", "tabs"},
    delete |-> {"view", "split", "tabs"},
    viewType |-> {"view"}, config |-> {"view"},
    addTab |-> {"tabs"}, renameTab |-> {"tabs"}, removeTab |-> {"tabs"} ]

\* handleSplit, handleTabs, handleViewTypeChange, handleConfigChange,
\* handleAddTab, handleRenameTab, handleRemoveTab and handleDeleteSelected:
\* each returns unless a node of its type is selected (and the user
\* confirms a delete), and gives the blueprint to a function of
\* $lib/recording/blueprint, whose result is any tree.
EditHandler(op, confirmed, result) ==
  /\ mounted
  /\ op = "delete" \/ confirmed
  /\ IF SelectedTypes(blueprint, selectedId) \cap EditHandlers[op] = {}
       THEN CommitEditor(Editor, EditorStep(op, "", "", confirmed), <<>>)
     ELSE IF op = "delete" /\ ~confirmed
       THEN CommitEditor(Editor, EditorStep(op, "", "", confirmed), <<>>)
     ELSE IF op \in {"removeTab", "delete"}
       THEN CommitEditor([Editor EXCEPT
                            !.blueprint = result,
                            !.selectedId = ensureValidSelection(result, @)],
                         EditorStep(op, "", "", confirmed), <<>>)
     ELSE CommitEditor([Editor EXCEPT !.blueprint = result],
                       EditorStep(op, "", "", confirmed), <<>>)

\* applyBlueprintDetail: the page is given another blueprint.
ApplyLayout(detail) ==
  /\ mounted
  /\ CommitEditor([Editor EXCEPT !.blueprint = detail,
                              !.selectedId = ensureValidSelection(detail, @),
                              !.filledDefaults = FALSE,
                              !.fills = 0],
               EditorStep("apply", "", "", FALSE), <<>>)

\* The topics query has an answer, with topics or without.
EditorTopics(loaded) ==
  /\ mounted
  /\ loaded # topicsLoaded
  /\ CommitEditor([Editor EXCEPT !.topicsLoaded = loaded],
                  EditorStep("topics", "", "", FALSE), <<>>)

\* --------------------------------------------------------- analyses page
\* The analyses page of an experiment: the blocks edited locally, the two
\* queries and handleSave.  A block is its name; purpose and notes are
\* treated by the code as the name is.
Experiments == {"e1", "e2"}
Null == "<null>"
BlockNames == {"", "x"}
SaveFailed == "save failed"
SaveDone == "saved"
NoData == <<>>
NoSave == [phase |-> "none", id |-> "", items |-> <<>>]
\* What the server holds when the page is opened.
ServerAtStart == [e \in Experiments |-> IF e = "e1" THEN <<Null>> ELSE <<"x">>]

\* block.name ?? ''
orEmpty(v) == IF v = Null THEN "" ELSE v
\* block.name || null
orNull(v) == IF v = "" THEN Null ELSE v

AnalysesStep(op, init, outcome) == [op |-> op, init |-> init, outcome |-> outcome]

Analyses ==
  [ experimentId |-> experimentId, experiment |-> experiment,
    analysesData |-> analysesData, analysisBlocks |-> analysisBlocks,
    initializedId |-> initializedId, submitting |-> submitting,
    error |-> saveError, success |-> saveSuccess, save |-> saveCall,
    server |-> serverAnalyses, inits |-> initialised, init |-> FALSE ]

\* fromServer: $analysesQuery.data?.analyses ?? [], each block mapped.
fromServer(st) ==
  LET blocks == IF st.analysesData = NoData THEN <<>> ELSE st.analysesData[1]
  IN [st EXCEPT !.analysisBlocks = [i \in DOMAIN blocks |-> orEmpty(blocks[i])]]

\* $: if (experiment && $analysesQuery.data && experiment.id !== initializedId)
analysesReact(st) ==
  IF st.experiment # "" /\ st.analysesData # NoData /\ st.experiment # st.initializedId
    THEN [fromServer(st) EXCEPT !.initializedId = st.experiment,
                                !.inits = @ \cup {st.experiment}, !.init = TRUE]
    ELSE st

CommitAnalyses(v, op, outcome) ==
  \E st \in {analysesReact(v)} :
  /\ experimentId' = st.experimentId
  /\ experiment' = st.experiment
  /\ analysesData' = st.analysesData
  /\ analysisBlocks' = st.analysisBlocks
  /\ initializedId' = st.initializedId
  /\ submitting' = st.submitting
  /\ saveError' = st.error
  /\ saveSuccess' = st.success
  /\ saveCall' = st.save
  /\ serverAnalyses' = st.server
  /\ initialised' = st.inits
  /\ analysesLast' = AnalysesStep(op, st.init, outcome)
  /\ UNCHANGED exceptAnalyses

\* The page is shown for another experiment: both queries get a new key
\* and have no data until their fetch has returned.
AnalysesNavigate(e) ==
  /\ e # experimentId
  /\ CommitAnalyses([Analyses EXCEPT !.experimentId = e, !.experiment = "",
                                     !.analysesData = NoData],
                    "navigate", "")

\* api.experiments.get returns.
ExperimentLoaded ==
  /\ experimentId # "" /\ experiment = ""
  /\ CommitAnalyses([Analyses EXCEPT !.experiment = experimentId], "experiment", "")

\* api.experiments.analyses returns.
AnalysesLoaded ==
  /\ experimentId # "" /\ analysesData = NoData
  /\ CommitAnalyses([Analyses EXCEPT !.analysesData = <<serverAnalyses[experimentId]>>],
                    "analyses", "")

updateBlock(st, index, name) ==
  [st EXCEPT !.analysisBlocks =
     [i \in DOMAIN @ |-> IF i = index THEN name ELSE @[i]]]
addBlock(st) == [st EXCEPT !.analysisBlocks = Append(@, "")]
removeBlock(st, index) ==
  [st EXCEPT !.analysisBlocks =
     SubSeq(@, 1, index - 1) \o SubSeq(@, index + 1, Len(@))]

UpdateBlock(index, name) ==
  /\ index \in DOMAIN analysisBlocks
  /\ analysisBlocks[index] # name
  /\ CommitAnalyses(updateBlock(Analyses, index, name), "update", "")
AddBlock ==
  /\ Len(analysisBlocks) < MaxBlocks
  /\ CommitAnalyses(addBlock(Analyses), "add", "")
RemoveBlock(index) ==
  /\ index \in DOMAIN analysisBlocks
  /\ CommitAnalyses(removeBlock(Analyses, index), "remove", "")

\* handleSave up to `await api.experiments.replaceAnalyses(...)`; the
\* button is disabled while submitting.
handleSave(st) ==
  IF st.experiment = "" THEN st
  ELSE [st EXCEPT !.submitting = TRUE, !.error = "", !.success = "",
                  !.save = [phase |-> "replace", id |-> st.experiment,
                            items |-> [i \in DOMAIN st.analysisBlocks |->
                                         orNull(st.analysisBlocks[i])]]]
\* Mutant: the catch block takes the blocks from the server.
saveCatchReloads(st) ==
  [fromServer(st) EXCEPT !.error = SaveFailed, !.submitting = FALSE, !.save = NoSave]
\* catch and finally
saveCatch(st) ==
  [st EXCEPT !.error = SaveFailed, !.submitting = FALSE, !.save = NoSave]
\* fromServer(), success, finally
saveFinish(st) ==
  [fromServer(st) EXCEPT !.success = SaveDone, !.submitting = FALSE, !.save = NoSave]

HandleSave ==
  /\ ~submitting
  /\ CommitAnalyses(handleSave(Analyses), "save", "")

\* replaceAnalyses returns: the server holds the items, and refetch is awaited.
ReplaceResolves ==
  /\ saveCall.phase = "replace"
  /\ CommitAnalyses([Analyses EXCEPT !.server[saveCall.id] = saveCall.items,
                                     !.save.phase = "refetch"],
                    "replaced", "")
ReplaceRejects ==
  /\ saveCall.phase = "replace"
  /\ CommitAnalyses(saveCatch(Analyses), "replaced", "rejected")

\* refetch() returns, with new data in the query or with the old.
RefetchResolves(fetched) ==
  /\ saveCall.phase = "refetch"
  /\ CommitAnalyses(saveFinish(IF fetched /\ experimentId # ""
                                 THEN [Analyses EXCEPT !.analysesData =
                                         <<serverAnalyses[experimentId]>>]
                                 ELSE Analyses),
                    "refetched", "resolved")
RefetchRejects ==
  /\ saveCall.phase = "refetch"
  /\ CommitAnalyses(saveCatch(Analyses), "refetched", "rejected")

\* ------------------------------------------------------------ setup page
\* The setup page: the start and stop buttons of VLAbor and the teleop
\* session calls they make.
ProfileNames == {"", "p1"}
VlaborStates == {"unknown", "stopped", "running"}
\* What createSession returns as session_id; Null when it returns none.
ReturnedSessionIds == {Null, "teleop", "s1"}
TeleopId == "teleop"
StartFailed == "start failed"
StopFailed == "stop failed"

SetupStep(op, api, arg, outcome) ==
  [op |-> op, api |-> api, arg |-> arg, outcome |-> outcome, returned |-> ""]
ActionCall(kind, phase) == [kind |-> kind, phase |-> phase, sessionId |-> ""]

Setup ==
  [ actionPending |-> actionPending, actionIntent |-> actionIntent,
    actionMessage |-> actionMessage, calls |-> actionCalls,
    startedId |-> startedId ]

\* Mutant: the buttons are never disabled.
neverDisabled(pending, profile) == FALSE
\* disabled={actionPending || !activeProfileName}
startDisabled(pending, profile) == pending \/ profile = ""
\* disabled={actionPending}
stopDisabled(pending, profile) == pending

\* created?.session_id ?? 'teleop'
sessionIdOf(created) == IF created = Null THEN TeleopId ELSE created

\* The calls in flight once the i-th has ended.
Ended(calls, i) == SubSeq(calls, 1, i - 1) \o SubSeq(calls, i + 1, Len(calls))

\* startVlabor up to `await api.teleop.createSession(...)`
startVlabor(st) ==
  [st EXCEPT !.actionPending = TRUE, !.actionIntent = "start", !.actionMessage = "",
             !.calls = Append(@, ActionCall("start", "create"))]
\* stopVlabor up to `await api.teleop.stopSession(...)`
stopVlabor(st) ==
  [st EXCEPT !.actionPending = TRUE, !.actionIntent = "stop", !.actionMessage = "",
             !.calls = Append(@, ActionCall("stop", "stop"))]
\* catch and finally of either action
actionCatch(st, i) ==
  [st EXCEPT !.actionMessage = IF st.calls[i].kind = "start" THEN StartFailed ELSE StopFailed,
             !.actionIntent = "", !.actionPending = FALSE,
             !.calls = Ended(@, i)]
\* finally of either action, after its last await
actionFinally(st, i) ==
  [st EXCEPT !.actionPending = FALSE, !.actionIntent = "", !.calls = Ended(@, i)]

CommitSetup(st, step) ==
  /\ actionPending' = st.actionPending
  /\ actionIntent' = st.actionIntent
  /\ actionMessage' = st.actionMessage
  /\ actionCalls' = st.calls
  /\ startedId' = st.startedId
  /\ setupLast' = step
  /\ UNCHANGED exceptSetup

\* The start button is shown unless VLAbor runs.
StartVlabor ==
  /\ vlaborState # "running"
  /\ ~startDisabled(actionPending, activeProfileName)
  /\ Len(actionCalls) < MaxCalls
  /\ UNCHANGED <<activeProfileName, vlaborState>>
  /\ CommitSetup(startVlabor(Setup),
                 SetupStep("startVlabor", "createSession", activeProfileName, ""))
StopVlabor ==
  /\ vlaborState = "running"
  /\ ~stopDisabled(actionPending, activeProfileName)
  /\ Len(actionCalls) < MaxCalls
  /\ UNCHANGED <<activeProfileName, vlaborState>>
  /\ CommitSetup(stopVlabor(Setup),
                 SetupStep("stopVlabor", "stopSession", TeleopId, ""))

\* createSession returns: startSession is called with the session id.
CreateSessionReturns(i, created) ==
  /\ i \in DOMAIN actionCalls
  /\ actionCalls[i].phase = "create"
  /\ UNCHANGED <<activeProfileName, vlaborState>>
  /\ CommitSetup([Setup EXCEPT !.calls[i].phase = "start",
                               !.calls[i].sessionId = sessionIdOf(created)],
                 [SetupStep("created", "startSession", sessionIdOf(created), "resolved")
                    EXCEPT !.returned = created])
\* startSession or stopSession returns: the status query is refetched.
SessionCallReturns(i) ==
  /\ i \in DOMAIN actionCalls
  /\ actionCalls[i].phase \in {"start", "stop"}
  /\ UNCHANGED <<activeProfileName, vlaborState>>
  /\ CommitSetup([Setup EXCEPT !.calls[i].phase = "status",
                               !.startedId = IF actionCalls[i].phase = "start"
                                               THEN actionCalls[i].sessionId ELSE @],
                 SetupStep("called", "", "", "resolved"))
\* A refetch returns: the next one is awaited, or the action ends.
RefetchReturns(i, state) ==
  /\ i \in DOMAIN actionCalls
  /\ actionCalls[i].phase \in {"status", "active"}
  /\ activeProfileName' = activeProfileName
  /\ vlaborState' = IF actionCalls[i].phase = "status" THEN state ELSE vlaborState
  /\ CommitSetup(IF actionCalls[i].phase = "status"
                   THEN [Setup EXCEPT !.calls[i].phase = "active"]
                   ELSE actionFinally(Setup, i),
                 SetupStep("refetched", "", "",
                           IF actionCalls[i].phase = "status" THEN "" ELSE "done"))
\* The call or refetch awaited by an action rejects.
AwaitRejects(i) ==
  /\ i \in DOMAIN actionCalls
  /\ UNCHANGED <<activeProfileName, vlaborState>>
  /\ CommitSetup(actionCatch(Setup, i),
                 SetupStep(actionCalls[i].phase, "", "", "rejected"))
\* The status stream delivers the state of VLAbor.
VlaborStream(state) ==
  /\ state # vlaborState
  /\ vlaborState' = state
  /\ activeProfileName' = activeProfileName
  /\ CommitSetup(Setup, SetupStep("stream", "", "", ""))
\* The profile queries deliver the active profile.
ProfileLoaded(name) ==
  /\ name # activeProfileName
  /\ activeProfileName' = name
  /\ vlaborState' = vlaborState
  /\ CommitSetup(Setup, SetupStep("profile", "", "", ""))

\* --------------------------------------------------------- specifications
ClientInit ==
  /\ ws = 0
  /\ status = "idle"
  /\ subscriptions = <<>>
  /\ pendingServiceCalls = <<>>
  /\ serviceRequestSeq = 0
  /\ connectPromise = 0
  /\ reconnectTimer = FALSE
  /\ reconnectTimeouts = 0
  /\ reconnectAttempt = 0
  /\ reconnectDelay = 0
  /\ readyState = [s \in Sockets |-> "none"]
  /\ promise = [s \in Sockets |-> "none"]
  /\ timers = <<>>
  /\ call = [k \in Slots |-> "unused"]
  /\ callId = [k \in Slots |-> 0]
  /\ callValue = [k \in Slots |-> NoPayload]
  /\ settles = [k \in Slots |-> 0]
  /\ waiters = <<>>
  /\ sent = {}
  /\ invoked = [h \in Handlers |-> <<>>]
  /\ uncaught = FALSE
  /\ statusListeners = <<>>
  /\ notified = <<>>
  /\ last = Op("init", "", "", 0, 0, "")

LoadIdle ==
  /\ loadPc = "start"
  /\ authReply = "none"
  /\ statusCalls = 0
  /\ loadResult = [kind |-> "none", status |-> 0, location |-> <<>>]

SessionIdle ==
  /\ mounted = FALSE
  /\ activeBlueprintId = ""
  /\ blueprint = createDefaultBlueprint
  /\ filledDefaults = FALSE
  /\ topicsLoaded = FALSE
  /\ drafts = <<>>
  /\ saveDeps = {}
  /\ saveDirty = FALSE
  /\ pageLast = PageStep("init", FALSE, "", "", createDefaultBlueprint)

ConfigIdle ==
  /\ localStorage = <<>>
  /\ lastStored = {}
  /\ cfgLast = CfgStep("init", "", "", FALSE)
\* The pages run in a browser (ssr = false).
InBrowser == hasWindow = TRUE /\ variant = "web"

RegsIdle == regs = <<>>

ListIdle ==
  /\ listValues = NoValues
  /\ listResult = <<>>

StatusIdle ==
  statusOffs = <<>>

ViewsIdle ==
  /\ logAlive = FALSE
  /\ logTopic = ""
  /\ logUnsubscribe = {}
  /\ lines = <<>>
  /\ maxLines = MaxMsgs
  /\ received = <<>>
  /\ jointAlive = FALSE
  /\ jointTopic = ""
  /\ jointUnsubscribe = {}
  /\ jointNames = ""
  /\ posSeries = <<>>
  /\ jointIndex = 0
  /\ maxPoints = MaxMsgs

SplitIdle ==
  /\ dragging = FALSE
  /\ editable = TRUE
  /\ direction = "row"
  /\ dispatched = <<>>
  /\ pressed = FALSE
  /\ splitLast = SplitStep("", NoEvent, NoRect)

EditorIdle ==
  /\ selectedId = ""
  /\ editMode = TRUE
  /\ fills = 0
  /\ onSelectCalls = <<>>
  /\ editorLast = EditorStep("init", "", "", FALSE)

AnalysesIdle ==
  /\ experimentId = ""
  /\ experiment = ""
  /\ analysesData = NoData
  /\ analysisBlocks = <<>>
  /\ initializedId = ""
  /\ submitting = FALSE
  /\ saveError = ""
  /\ saveSuccess = ""
  /\ saveCall = NoSave
  /\ serverAnalyses = ServerAtStart
  /\ initialised = {}
  /\ analysesLast = AnalysesStep("init", FALSE, "")

SetupIdle ==
  /\ actionPending = FALSE
  /\ actionIntent = ""
  /\ actionMessage = ""
  /\ activeProfileName = ""
  /\ vlaborState = "unknown"
  /\ actionCalls = <<>>
  /\ startedId = ""
  /\ setupLast = SetupStep("init", "", "", "")

CameraIdle ==
  /\ camAlive = FALSE
  /\ camTopic = ""
  /\ imageSrc = ""
  /\ camError = ""
  /\ camStatus = "idle"
  /\ camUnsubscribe = {}
  /\ requiresCompressed = FALSE

TopicsIdle ==
  /\ topics = <<>>
  /\ selectedTopic = ""
  /\ previewPayload = {}
  /\ unsubscribePreview = {}
  /\ loadingTopics = FALSE
  /\ refreshing = {}

\* The parts of the application a specification does not drive.
LaterIdle == StatusIdle /\ ViewsIdle /\ SplitIdle /\ EditorIdle /\ AnalysesIdle /\ SetupIdle
RestIdle == RegsIdle /\ ListIdle /\ LaterIdle

Init ==
  /\ ClientInit /\ LoadIdle /\ loadPath = <<"/">> /\ SessionIdle /\ sessionId = ""
  /\ blueprintSession = ""
  /\ ConfigIdle /\ InBrowser /\ TopicsIdle /\ CameraIdle /\ RestIdle

\* The subscription and connection protocol of the client.
Next ==
  \/ \E t \in Topics \cup {""}, h \in Handlers, o \in OptionSet : Subscribe(t, h, o)
  \/ \E t \in Topics, h \in Handlers : Unsubscribe(t, h)
  \/ ManualConnect
  \/ \E s \in Sockets : SocketOpen(s)
  \/ \E s \in Sockets : SocketError(s, MaxAttempt)
  \/ \E s \in Sockets : SocketClose(s)
  \/ \E s \in Sockets, t \in Topics \cup {""}, m \in Msgs : ReceivePublish(s, t, m)
  \/ \E s \in Sockets : ReceiveIgnored(s, "invalid")
  \/ ReconnectTimerFire

Spec == Init /\ [][Next]_vars

\* Timers fire, a failed socket's close event follows its error event, a
\* connection attempt ends, and the server accepts one of the attempts
\* that are made again and again.
ClosesAfterError(s) == readyState[s] = "errored" /\ SocketClose(s)
AttemptEnds(s) ==
  readyState[s] = "connecting" /\ (SocketOpen(s) \/ SocketError(s, MaxAttempt))
Fairness ==
  /\ WF_vars(ReconnectTimerFire)
  /\ \A s \in Sockets : WF_vars(ClosesAfterError(s))
  /\ \A s \in Sockets : WF_vars(AttemptEnds(s))
  /\ SF_vars(\E s \in Sockets : SocketOpen(s))

LiveSpec == Init /\ [][Next]_vars /\ Fairness

\* The service calls of the client, beside one subscriber of one topic.
SvcTopic == "/joint_states"
SvcHandler == "h1"
SvcNext ==
  \/ Subscribe(SvcTopic, SvcHandler, NoOptions)
  \/ Unsubscribe(SvcTopic, SvcHandler)
  \/ \E sv \in Services, ms \in TimeoutInputs : CallService(sv, ms)
  \/ \E s \in Sockets : SocketOpen(s)
  \/ \E s \in Sockets : SocketError(s, MaxSvcAttempt)
  \/ \E s \in Sockets : SocketClose(s)
  \/ \E s \in Sockets, id \in 0..MaxCalls, r \in ResultInputs :
       ReceiveServiceResponse(s, id, r)
  \/ \E id \in 1..MaxCalls : ServiceTimeout(id)
  \/ ReconnectTimerFire

SvcSpec == Init /\ [][SvcNext]_vars

\* The callers of connect() side by side: subscribe, callService, the
\* reconnect timer and the session page's reconnect button.
ConnNext ==
  \/ Subscribe(SvcTopic, SvcHandler, NoOptions)
  \/ Unsubscribe(SvcTopic, SvcHandler)
  \/ ManualConnect
  \/ \E sv \in Services, ms \in TimeoutInputs : CallService(sv, ms)
  \/ \E s \in Sockets : SocketOpen(s)
  \/ \E s \in Sockets : SocketError(s, MaxSvcAttempt)
  \/ \E s \in Sockets : SocketClose(s)
  \/ \E s \in Sockets, id \in 0..MaxCalls, r \in ResultInputs :
       ReceiveServiceResponse(s, id, r)
  \/ \E id \in 1..MaxCalls : ServiceTimeout(id)
  \/ ReconnectTimerFire
ConnSpec == Init /\ [][ConnNext]_vars

\* A connection attempt ends: the browser opens the socket or fails it.
ConnAttemptEnds(s) ==
  readyState[s] = "connecting" /\ (SocketOpen(s) \/ SocketError(s, MaxSvcAttempt))
ConnLiveSpec ==
  Init /\ [][ConnNext]_vars /\ \A s \in Sockets : WF_vars(ConnAttemptEnds(s))

LoadInit ==
  /\ ClientInit /\ LoadIdle /\ loadPath \in Paths /\ SessionIdle /\ sessionId = ""
  /\ blueprintSession = ""
  /\ ConfigIdle /\ InBrowser /\ TopicsIdle /\ CameraIdle /\ RestIdle
LoadNext ==
  \/ LoadStart
  \/ \E r \in AuthReplies : LoadResume(r)
  \/ FollowRedirect
LoadSpec == LoadInit /\ [][LoadNext]_vars

\* The session page, with its effects run whenever they are scheduled.
SessionInit ==
  /\ ClientInit /\ LoadIdle /\ loadPath = <<"/">> /\ SessionIdle /\ sessionId \in SessionIds
  /\ blueprintSession = sessionId
  /\ ConfigIdle /\ InBrowser /\ TopicsIdle /\ CameraIdle /\ RestIdle
SessionNext ==
  \/ Mount
  \/ RunSaveEffect
  \/ FillEffect
  \/ \E op \in {"edit", "resize", "tab"}, t \in Trees : EditBlueprint(op, t)
  \/ \E id \in BlueprintIds, bp \in Blueprints, useDraft \in BOOLEAN :
       ApplyBlueprintDetail(id, bp, useDraft)
  \/ \E session \in SessionIds : Navigate(session)
  \/ TopicsArrive
  \/ \E session \in SessionIds : LeavePage(session)
SessionSpec ==
  SessionInit /\ [][SessionNext]_vars /\ WF_vars(RunSaveEffect) /\ WF_vars(FillEffect)

\* The session page shown for one session and then for another, the
\* component and its state being kept by the router.
SwitchSessions == {"s1", "s2"}
SwitchInit ==
  /\ ClientInit /\ LoadIdle /\ loadPath = <<"/">> /\ SessionIdle
  /\ sessionId \in SwitchSessions
  /\ blueprintSession = sessionId
  /\ ConfigIdle /\ InBrowser /\ TopicsIdle /\ CameraIdle /\ RestIdle
SwitchNext ==
  \/ Mount
  \/ RunSaveEffect
  \/ FillEffect
  \/ \E t \in Trees : EditBlueprint("edit", t)
  \/ \E bp \in Blueprints, useDraft \in BOOLEAN : ApplyBlueprintDetail("b1", bp, useDraft)
  \/ \E session \in SwitchSessions : Navigate(session)
  \/ TopicsArrive
SwitchSpec ==
  SwitchInit /\ [][SwitchNext]_vars /\ WF_vars(RunSaveEffect) /\ WF_vars(FillEffect)

\* The config module, in either build, with and without a window.
ConfigInit ==
  /\ ClientInit /\ LoadIdle /\ loadPath = <<"/">> /\ SessionIdle /\ sessionId = ""
  /\ blueprintSession = ""
  /\ ConfigIdle /\ TopicsIdle /\ CameraIdle /\ RestIdle
  /\ variant \in {"web", "tauri"}
  /\ hasWindow \in BOOLEAN
  /\ variant = "tauri" => hasWindow
ConfigNext ==
  \/ GetBackendUrl
  \/ \E url \in Urls : SetBackendUrl(url)
  \/ ClearBackendUrl
ConfigSpec == ConfigInit /\ [][ConfigNext]_vars

\* The ROS topics page and the client it shares.
TopicsNext ==
  \/ \E name \in Topics : TopicsSelect(name)
  \/ TopicsRefresh
  \/ \E s \in Sockets : TopicsSocketOpen(s)
  \/ \E s \in Sockets : TopicsSocketError(s, MaxSvcAttempt)
  \/ \E s \in Sockets : TopicsSocketClose(s)
  \/ \E s \in Sockets, t \in Topics, m \in Msgs : TopicsReceivePublish(s, t, m)
  \/ \E s \in Sockets, id \in 1..MaxCalls, r \in ResultInputs, loaded \in SUBSET Topics :
       TopicsServiceResponse(s, id, r, loaded)
  \/ \E id \in 1..MaxCalls : TopicsServiceTimeout(id)
  \/ TopicsReconnectTimerFire
TopicsSpec == Init /\ [][TopicsNext]_vars

\* The subscribers of the client, each keeping the function its subscribe
\* call returned.
RegNext ==
  \/ \E t \in Topics \cup {""}, h \in Handlers : SubscribeCall(t, h, NoOptions)
  \/ \E r \in 1..MaxRegs : UnsubscribeCall(r)
  \/ \E s \in Sockets : SocketOpen(s)
  \/ \E s \in Sockets : SocketError(s, MaxSvcAttempt)
  \/ \E s \in Sockets : SocketClose(s)
  \/ \E s \in Sockets, t \in Topics \cup {""}, m \in Msgs : ReceivePublish(s, t, m)
  \/ ReconnectTimerFire
RegSpec == Init /\ [][RegNext]_vars

\* The frames a socket may deliver, beside one subscriber and the service
\* calls.
MessageFrames ==
  {MessageFrame(d, "", "", 0, "absent") : d \in {"empty", "invalid", "null"}}
    \cup {MessageFrame("object", "publish", t, 0, "absent") : t \in Topics \cup {""}}
    \cup {MessageFrame("object", "service_response", "", id, r) :
            id \in 0..MaxCalls, r \in {"true", "false"}}
    \cup {MessageFrame("object", op, SvcTopic, id, "true") :
            op \in {"status", ""}, id \in 0..1}
MsgNext ==
  \/ Subscribe(SvcTopic, SvcHandler, NoOptions)
  \/ Unsubscribe(SvcTopic, SvcHandler)
  \/ \E ms \in TimeoutInputs : CallService("/rosapi/topics", ms)
  \/ \E s \in Sockets : SocketOpen(s)
  \/ \E s \in Sockets : SocketError(s, MaxSvcAttempt)
  \/ \E s \in Sockets : SocketClose(s)
  \/ \E s \in Sockets, f \in MessageFrames : ReceiveMessage(s, f)
  \/ \E id \in 1..MaxCalls : ServiceTimeout(id)
  \/ ReconnectTimerFire
MsgSpec == Init /\ [][MsgNext]_vars

\* listTopics on every shape of response.
ListInit ==
  /\ ClientInit /\ LoadIdle /\ loadPath = <<"/">> /\ SessionIdle /\ sessionId = ""
  /\ blueprintSession = ""
  /\ ConfigIdle /\ InBrowser /\ TopicsIdle /\ CameraIdle /\ RegsIdle /\ LaterIdle
  /\ listValues \in ValuesInputs
  /\ listResult = <<>>
ListNext == ListTopics
ListSpec == ListInit /\ [][ListNext]_vars

\* The status listeners beside everything that changes the status.
StatusNext ==
  \/ \E h \in Handlers : OnStatusChange(h)
  \/ \E r \in 1..MaxRegs : OffStatusChange(r)
  \/ Subscribe(SvcTopic, SvcHandler, NoOptions)
  \/ Unsubscribe(SvcTopic, SvcHandler)
  \/ ManualConnect
  \/ \E s \in Sockets : SocketOpen(s)
  \/ \E s \in Sockets : SocketError(s, MaxSvcAttempt)
  \/ \E s \in Sockets : SocketClose(s)
  \/ ReconnectTimerFire
StatusSpec == Init /\ [][StatusNext]_vars

\* One CameraView and the client it shares.
CameraNext ==
  \/ \E t \in CameraTopics : CameraCreate(t)
  \/ \E t \in CameraTopics : CameraSetTopic(t)
  \/ CameraDestroy
  \/ \E s \in Sockets, t \in CameraTopics, d \in BOOLEAN, soon \in BOOLEAN,
         f \in {"jpeg", "png"} : CameraReceivePublish(s, t, d, soon, f)
  \/ \E s \in Sockets : SocketOpen(s)
  \/ \E s \in Sockets : SocketError(s, MaxSvcAttempt)
  \/ \E s \in Sockets : SocketClose(s)
  \/ ReconnectTimerFire
CameraSpec == Init /\ [][CameraNext]_vars

\* The three telemetry views, created, given topics and destroyed, and the
\* client they share.
ViewNext ==
  \/ \E t \in ViewTopics : CameraCreate(t)
  \/ \E t \in ViewTopics : CameraSetTopic(t)
  \/ CameraDestroy
  \/ \E t \in ViewTopics : LogCreate(t, MaxMsgs)
  \/ \E t \in ViewTopics : LogSetTopic(t)
  \/ LogDestroy
  \/ \E t \in ViewTopics : JointCreate(t, MaxMsgs)
  \/ \E t \in ViewTopics : JointSetTopic(t)
  \/ JointDestroy
  \/ \E s \in Sockets : SocketOpen(s)
  \/ \E s \in Sockets : SocketError(s, MaxSvcAttempt)
  \/ \E s \in Sockets : SocketClose(s)
  \/ ReconnectTimerFire
ViewSpec == Init /\ [][ViewNext]_vars

\* The buffers of LogView and JointState: the views on their topics, the
\* sizes they are given and the messages they are handed.
BufferNext ==
  \/ \E size \in Sizes : LogCreate("/joint_states", size)
  \/ \E size \in Sizes : LogSetMaxLines(size)
  \/ \E size \in Sizes : JointCreate("/joint_states", size)
  \/ \E text \in NumberInputs : JointNumberField(text)
  \/ \E s \in Sockets : SocketOpen(s)
  \/ \E s \in Sockets, msg \in ViewMessages : ViewsReceivePublish(s, "/joint_states", msg)
BufferSpec == Init /\ [][BufferNext]_vars

\* One SplitPane under pointer events, with the container at several
\* places and sizes.
PointerEvents == {PointerEvent(x, y) : x \in {-3, 4, 10, 40}, y \in {0, 12, 19}}
Rects == {Rect(l, 0, w, h) : l \in {0, 2}, w \in {0, 20}, h \in {0, 20}}
SplitNext ==
  \/ \E e \in PointerEvents, r \in Rects : SplitPointerDown(e, r)
  \/ \E e \in PointerEvents, r \in Rects : SplitPointerMove(e, r)
  \/ \E kind \in {"pointerup", "pointerleave"} : SplitPointerUp(kind)
  \/ \E b \in BOOLEAN : SplitSetEditable(b)
  \/ \E d \in {"row", "column"} : SplitSetDirection(d)
SplitSpec == Init /\ [][SplitNext]_vars

\* The session page's layout: selection by click and key, the edit
\* handlers, blueprints applied and the defaults filled in.
EditorInit ==
  /\ ClientInit /\ LoadIdle /\ loadPath = <<"/">>
  /\ mounted = FALSE /\ sessionId = "" /\ activeBlueprintId = ""
  /\ blueprint = DefaultLayout
  /\ filledDefaults = FALSE /\ topicsLoaded = FALSE
  /\ drafts = <<>> /\ saveDeps = {} /\ saveDirty = FALSE
  /\ pageLast = PageStep("init", FALSE, "", "", createDefaultBlueprint)
  /\ blueprintSession = ""
  /\ ConfigIdle /\ InBrowser /\ TopicsIdle /\ CameraIdle /\ RestIdle
EditorNext ==
  \/ EditorMount
  \/ \E target \in NodeIds : LayoutClick(target)
  \/ \E target \in NodeIds, key \in {"Enter", " ", "a"} : LayoutKeydown(target, key)
  \/ ToggleEditMode
  \/ \E op \in DOMAIN EditHandlers, confirmed \in BOOLEAN, result \in LayoutTrees :
       EditHandler(op, confirmed, result)
  \/ \E detail \in LayoutTrees : ApplyLayout(detail)
  \/ \E loaded \in BOOLEAN : EditorTopics(loaded)
EditorSpec == EditorInit /\ [][EditorNext]_vars

\* The analyses page: experiments shown, blocks edited and saved.
AnalysesNext ==
  \/ \E e \in Experiments : AnalysesNavigate(e)
  \/ ExperimentLoaded
  \/ AnalysesLoaded
  \/ \E i \in 1..MaxBlocks, name \in BlockNames : UpdateBlock(i, name)
  \/ AddBlock
  \/ \E i \in 1..MaxBlocks : RemoveBlock(i)
  \/ HandleSave
  \/ ReplaceResolves
  \/ ReplaceRejects
  \/ \E fetched \in BOOLEAN : RefetchResolves(fetched)
  \/ RefetchRejects
AnalysesSpec == Init /\ [][AnalysesNext]_vars

\* The setup page: VLAbor started and stopped.
SetupNext ==
  \/ StartVlabor
  \/ StopVlabor
  \/ \E i \in 1..MaxCalls, created \in ReturnedSessionIds : CreateSessionReturns(i, created)
  \/ \E i \in 1..MaxCalls : SessionCallReturns(i)
  \/ \E i \in 1..MaxCalls, state \in VlaborStates : RefetchReturns(i, state)
  \/ \E i \in 1..MaxCalls : AwaitRejects(i)
  \/ \E state \in VlaborStates : VlaborStream(state)
  \/ \E name \in ProfileNames : ProfileLoaded(name)
SetupSpec == Init /\ [][SetupNext]_vars


\* ------------------------------------------------------------- properties
LossWithSubs ==
  last.op \in {"error", "close"} /\ DOMAIN subscriptions # {}

\* C1 as stated: after a socket error or close with a subscription in the
\* table, status eventually becomes 'connected' again.
C1_Original == LossWithSubs ~> (status = "connected")

\* C1: a socket error or close with a subscription in the table leaves a
\* reconnect timer pending; the timer's firing calls connect(), which leaves
\* a connection attempt in progress; and status eventually becomes
\* 'connected' again unless the subscription table becomes empty first.
C1_Reconnects ==
  /\ [](LossWithSubs => reconnectTimer)
  /\ [](last.op = "reconnect" =>
          \/ status = "connected" /\ ws # 0
          \/ connectPromise # 0 /\ promise[connectPromise] = "pending"
               /\ readyState[connectPromise] = "connecting")
  /\ LossWithSubs ~> (status = "connected" \/ DOMAIN subscriptions = {})

C1_Witness ==
  /\ last.op = "close"
  /\ DOMAIN subscriptions # {}
  /\ reconnectTimer
  /\ reconnectAttempt = 2

Registered(t) ==
  IF t \in DOMAIN subscriptions THEN subscriptions[t].handlers ELSE {}

\* The 'subscribe' frame the protocol asks for, for topic t on socket s.
SubscribeFrameOf(t, s) ==
  [ op |-> "subscribe", topic |-> t,
    type |-> subscriptions[t].options.type,
    queue_length |-> IF subscriptions[t].options.queue_length = Undefined
                       THEN 1 ELSE subscriptions[t].options.queue_length,
    throttle_rate |-> IF subscriptions[t].options.throttle_rate = Undefined
                        THEN 100 ELSE subscriptions[t].options.throttle_rate,
    id |-> 0, service |-> "", sock |-> s ]

\* C2: when a socket opens, exactly one 'subscribe' frame per topic of the
\* subscription table is sent on that socket, with the topic's stored type
\* and its queue_length and throttle_rate (1 and 100 when not given); no
\* subscribe() call is needed to restore the subscriptions.
C2_OpenResubscribes ==
  last.op = "open" =>
    /\ status = "connected"
    /\ {f \in sent : f.op = "subscribe"} =
         {SubscribeFrameOf(t, last.sock) : t \in DOMAIN subscriptions}

C2_Witness ==
  /\ last.op = "open"
  /\ Cardinality(sent) = 2
  /\ \E f \in sent : f.queue_length = 1 /\ f.throttle_rate = 100 /\ f.type = NoType
  /\ \E f \in sent : f.queue_length = 5 /\ f.throttle_rate = 0

\* C3: the table holds one entry per subscribed topic, which collects the
\* handlers of all its subscribers, and a 'publish' frame for topic T calls
\* each handler registered for T exactly once with the frame's msg and
\* calls no handler registered only for other topics.
C3_PublishFanOut ==
  /\ \A t \in DOMAIN subscriptions :
       t \in Topics /\ subscriptions[t].handlers # {}
  /\ (last.op = "subscribe" /\ last.topic # "") => last.handler \in Registered(last.topic)
  /\ last.op = "publish" =>
       \A h \in Handlers :
         invoked[h] = IF h \in Registered(last.topic) THEN <<last.arg>> ELSE <<>>
  /\ last.op # "publish" => \A h \in Handlers : invoked[h] = <<>>

C3_Witness ==
  /\ last.op = "publish"
  /\ Registered(last.topic) = {"h1"}
  /\ invoked["h1"] = <<"m1">>
  /\ invoked["h2"] = <<>>
  /\ \E t \in DOMAIN subscriptions : t # last.topic /\ "h2" \in Registered(t)

UnsubscribeFrameOf(t, s) ==
  [ op |-> "unsubscribe", topic |-> t, type |-> NoType,
    queue_length |-> Undefined, throttle_rate |-> Undefined,
    id |-> 0, service |-> "", sock |-> s ]

\* C4: an 'unsubscribe' frame for T is sent only by the removal of T's last
\* handler while the client is connected, which also deletes T's entry;
\* removing a handler while others remain sends nothing and keeps the
\* entry; removing the last handler while not connected deletes the entry
\* and sends nothing.
C4_UnsubscribeStep ==
  /\ (\E f \in sent' : f.op = "unsubscribe") => last'.op = "unsubscribe"
  /\ last'.op = "unsubscribe" =>
       LET t == last'.topic
           h == last'.handler
       IN IF Registered(t) = {h}
            THEN /\ t \notin DOMAIN subscriptions'
                 /\ sent' = IF status = "connected"
                              THEN {UnsubscribeFrameOf(t, ws)} ELSE {}
            ELSE /\ sent' = {}
                 /\ DOMAIN subscriptions' = DOMAIN subscriptions
                 /\ \A u \in DOMAIN subscriptions :
                      subscriptions'[u].handlers =
                        IF u = t THEN subscriptions[u].handlers \ {h}
                        ELSE subscriptions[u].handlers

C4_Unsubscribe == [][C4_UnsubscribeStep]_vars

C4_Witness ==
  /\ last.op = "unsubscribe"
  /\ sent = {UnsubscribeFrameOf(last.topic, ws)}
  /\ last.topic \notin DOMAIN subscriptions
  /\ DOMAIN subscriptions # {}

\* The delays of the schedule, by the number of reconnects scheduled before.
DelayTable == <<1000, 2000, 4000, 8000, 15000, 15000, 15000, 15000>>
Scheduling == ~reconnectTimer /\ reconnectTimer'

\* C8: a reconnect scheduled after k reconnects were scheduled since the
\* last successful open waits min(1000 * 2^k, 15000) ms; the counter k
\* changes only by one per scheduled reconnect and back to 0 on an open.
C8_BackoffStep ==
  /\ Scheduling =>
       /\ reconnectDelay' = DelayTable[reconnectAttempt + 1]
       /\ reconnectAttempt' = reconnectAttempt + 1
  /\ last'.op = "open" => reconnectAttempt' = 0
  /\ (~Scheduling /\ last'.op # "open") => reconnectAttempt' = reconnectAttempt
  /\ (reconnectTimer /\ reconnectTimer') => reconnectDelay' = reconnectDelay

C8_Backoff == [][C8_BackoffStep]_vars

C8_Witness ==
  /\ reconnectTimer
  /\ reconnectAttempt = 6
  /\ reconnectDelay = 15000


Settled(k) == call[k] \notin Unsettled

\* C5: the timer of a call that was sent and has had no matching response
\* rejects it as timed out and removes its entry from the pending table;
\* the timer runs for timeoutMs, 3000 when none was given; a
\* service_response whose id is not in the pending table, such as one that
\* arrives after the timeout, settles nothing and changes nothing.
C5_TimeoutStep ==
  /\ last'.op = "timeout" =>
       LET id == last'.id
           k == timers[id].slot
       IN /\ call[k] = "pending" /\ callId[k] = id /\ settles[k] = 0
          /\ call'[k] = "timed_out" /\ settles'[k] = 1
          /\ id \notin DOMAIN pendingServiceCalls'
          /\ id \notin DOMAIN timers'
  /\ (last'.op = "service_response" /\ last'.id \notin DOMAIN pendingServiceCalls) =>
       /\ call' = call /\ settles' = settles
       /\ pendingServiceCalls' = pendingServiceCalls /\ timers' = timers
       /\ status' = status /\ sent' = {}
  /\ (last'.op = "callService" /\ call'[last'.id] = "pending") =>
       timers'[callId'[last'.id]].ms = IF last'.ms = Undefined THEN 3000 ELSE last'.ms
  /\ (last'.op = "callService" /\ call'[last'.id] = "awaiting") =>
       waiters'[Len(waiters')].ms = IF last'.ms = Undefined THEN 3000 ELSE last'.ms
  /\ last'.op = "open" =>
       \A i \in 1..Len(waiters) :
         (waiters[i].p = last'.sock /\ call'[waiters[i].slot] = "pending") =>
           timers'[callId'[waiters[i].slot]].ms = waiters[i].ms

C5_Timeout == [][C5_TimeoutStep]_vars

C5_Witness ==
  /\ last.op = "service_response"
  /\ \E k \in Slots :
       call[k] = "timed_out" /\ callId[k] = last.id /\ settles[k] = 1

\* C6: resolve or reject is called at most once per call, and the pending
\* table holds exactly the ids of the calls that were sent and are not
\* settled, each with a running timer.
C6_PendingTable ==
  /\ \A k \in Slots : settles[k] <= 1 /\ (settles[k] = 1 <=> Settled(k))
  /\ DOMAIN pendingServiceCalls = {callId[k] : k \in {j \in Slots : call[j] = "pending"}}
  /\ \A id \in DOMAIN pendingServiceCalls :
       call[pendingServiceCalls[id]] = "pending" /\ callId[pendingServiceCalls[id]] = id
  /\ DOMAIN timers = DOMAIN pendingServiceCalls
  /\ \A id \in DOMAIN timers : timers[id].slot = pendingServiceCalls[id]

C6_Witness ==
  \E k, j \in Slots :
    /\ call[k] = "pending" /\ callId[k] \in DOMAIN pendingServiceCalls
    /\ call[j] = "connection_error"

\* C7: a socket error or close rejects every call of the pending table with
\* the connection error of that event and leaves the table and the timers
\* empty; a settled call is never settled again.
C7_LossStep ==
  /\ last'.op \in {"error", "close"} =>
       /\ pendingServiceCalls' = <<>>
       /\ timers' = <<>>
       /\ \A id \in DOMAIN pendingServiceCalls :
            /\ call'[pendingServiceCalls[id]] =
                 IF last'.op = "error" THEN "connection_error" ELSE "connection_closed"
            /\ settles'[pendingServiceCalls[id]] = 1
  /\ \A k \in Slots :
       Settled(k) => call'[k] = call[k] /\ settles'[k] = settles[k]

C7_Loss == [][C7_LossStep]_vars

C7_Witness ==
  /\ last.op = "service_response"
  /\ \E k, j \in Slots :
       /\ call[k] = "connection_closed" /\ callId[k] = last.id
       /\ call[j] = "connection_error"

AttemptInProgress ==
  /\ connectPromise # 0
  /\ promise[connectPromise] = "pending"
  /\ readyState[connectPromise] = "connecting"

\* C9 as stated: every subscribe() made while the client is not connected
\* registers its handler and starts or joins a connection attempt.
C9_OriginalStep ==
  (last'.op = "subscribe" /\ status # "connected") =>
    /\ last'.topic \in DOMAIN subscriptions'
    /\ last'.handler \in subscriptions'[last'.topic].handlers
    /\ AttemptInProgress'

C9_Original == [][C9_OriginalStep]_vars

\* C9: subscribe() leaves no exception uncaught; for a non-empty topic and a
\* client that is not connected it registers the handler and starts a
\* connection attempt or joins the one in progress, sending nothing; a
\* socket error or close leaves the subscription table as it is; for an
\* empty topic subscribe() registers nothing and starts nothing.
C9_SubscribeStep ==
  /\ ~uncaught'
  /\ (last'.op = "subscribe" /\ last'.topic # "" /\ status # "connected") =>
       /\ last'.topic \in DOMAIN subscriptions'
       /\ last'.handler \in subscriptions'[last'.topic].handlers
       /\ AttemptInProgress'
       /\ connectPromise # 0 =>
            connectPromise' = connectPromise /\ readyState' = readyState
       /\ sent' = {}
  /\ (last'.op = "subscribe" /\ last'.topic = "") =>
       /\ subscriptions' = subscriptions /\ status' = status
       /\ readyState' = readyState /\ connectPromise' = connectPromise
  /\ last'.op \in {"error", "close"} => subscriptions' = subscriptions

C9_Subscribe == [][C9_SubscribeStep]_vars

C9_Witness ==
  /\ last.op = "close"
  /\ last.arg = "errored"
  /\ reconnectAttempt = 1
  /\ Registered("/joint_states") = {"h1", "h2"}

\* The authentication page: '/auth' and the paths below '/auth/'.
IsAuthPage(path) ==
  path = AuthPrefix \/ startsWith(path, AuthPrefix \o <<"/">>)

\* C10: for a path that is not the authentication page load returns only
\* if api.auth.status() was called and reported authenticated, and throws a
\* 302 redirect to '/auth' otherwise; for the authentication page it
\* returns without calling the status API.
C10_AuthGuard ==
  loadPc = "done" =>
    IF IsAuthPage(loadPath)
      THEN loadResult.kind = "returned" /\ statusCalls = 0
      ELSE /\ statusCalls = 1
           /\ loadResult.kind = "returned" => authReply = "authenticated"
           /\ authReply # "authenticated" =>
                loadResult = [kind |-> "redirect", status |-> 302,
                              location |-> <<"/", "a", "u", "t", "h">>]

\* The draft of the blueprint on display.
DraftShown ==
  /\ <<BLUEPRINT_KIND, sessionId, activeBlueprintId>> \in DOMAIN drafts
  /\ drafts[<<BLUEPRINT_KIND, sessionId, activeBlueprintId>>] = blueprint
DraftWanted == mounted /\ sessionId # "" /\ activeBlueprintId # ""

\* A step that calls saveBlueprintDraft does so on a mounted page with both
\* ids non-empty and with (kind, sessionId, activeBlueprintId, blueprint);
\* no other step changes the drafts.
C11_WriteStep ==
  /\ pageLast'.wrote /\ saveDirty /\ ~saveDirty' =>
       /\ DraftWanted
       /\ pageLast' = PageStep("effect", TRUE, sessionId, activeBlueprintId, blueprint)
       /\ drafts' = With(drafts, <<"recording", sessionId, activeBlueprintId>>, blueprint)
  /\ drafts' # drafts => saveDirty /\ ~saveDirty' /\ DraftWanted

\* C11: while the page is mounted with a session id and an active blueprint
\* id, every change of the blueprint is followed by a saveBlueprintDraft
\* with the blueprint on display: once the effects have run the stored draft
\* is the displayed blueprint, and a draft that lags behind catches up; no
\* draft is written before mount or while either id is empty.
C11_DraftFollows ==
  /\ [][C11_WriteStep]_vars
  /\ [](EffectsRun /\ DraftWanted => DraftShown)
  /\ (DraftWanted /\ ~DraftShown) ~> DraftShown

C11_Witness ==
  /\ pageLast.op = "effect" /\ pageLast.wrote
  /\ blueprint = [tree |-> 1, filled |-> TRUE]
  /\ DraftShown
  /\ pageLast.id = "b2"
  /\ Cardinality(DOMAIN drafts) = 2

\* C12: getBackendUrl returns the url given to the last setBackendUrl, and
\* 'http://localhost:8000' when none was stored, after clearBackendUrl and,
\* in the web build, without a window.
C12_Returned ==
  cfgLast.op = "get" =>
    cfgLast.ret = IF hasWindow /\ lastStored # {}
                    THEN CHOOSE u \in lastStored : TRUE
                    ELSE "http://localhost:8000"

\* C12: setBackendUrl(url) followed by getBackendUrl returns url, for every url.
C12_RoundTripStep ==
  (cfgLast.op = "set" /\ ~cfgLast.threw /\ cfgLast'.op = "get") =>
    cfgLast'.ret = cfgLast.arg

C12_BackendUrl == [](C12_Returned) /\ [][C12_RoundTripStep]_vars

C12_Witness ==
  /\ cfgLast.op = "get"
  /\ cfgLast.ret = ""
  /\ lastStored = {""}

\* The preview subscriptions held: the handlers registered with the client.
PreviewSubscriptions == RegisteredIn(World)

\* C13: at most one preview subscription is active, and it is for the
\* selected topic; while no topic is selected there is no preview
\* subscription and no preview payload is set.
C13_PreviewFollowsSelection ==
  /\ Cardinality(PreviewSubscriptions) <= 1
  /\ \A r \in PreviewSubscriptions : r[1] = selectedTopic
  /\ selectedTopic = "" => PreviewSubscriptions = {} /\ previewPayload = {}

\* The topics for which the client holds the CameraView's handler.
CameraHeld ==
  {t \in DOMAIN subscriptions : "h1" \in subscriptions[t].handlers}
IsCompressedTopic(t) ==
  t \in {"/camera/compressed", "/compressed"}

\* C14: the CameraView holds a subscription only for its topic and only
\* while that topic is non-empty and ends with '/compressed'; with a
\* non-empty topic without the suffix it holds none, shows no image and
\* shows the compressed-only error; with an empty topic it holds none and
\* shows no image.
C14_CameraSubscription ==
  /\ CameraHeld \subseteq {camTopic}
  /\ CameraHeld # {} => camAlive /\ camTopic # "" /\ IsCompressedTopic(camTopic)
  /\ camAlive /\ camTopic # "" /\ ~IsCompressedTopic(camTopic) =>
       CameraHeld = {} /\ imageSrc = "" /\ camError = "compressed-only"
  /\ camAlive /\ camTopic = "" => CameraHeld = {} /\ imageSrc = ""

C14_Witness ==
  /\ camAlive
  /\ camTopic = "compressed"
  /\ last.op = "publish" /\ last.topic = "/camera/compressed"
  /\ status = "connected"
  /\ camError = "compressed-only"

\* C15: under every interleaving of subscribe, unsubscribe, connect, socket
\* events and timers, status is 'connected' only if ws is non-null and
\* refers to an open socket.
C15_ConnectedHasSocket ==
  status = "connected" => ws # 0 /\ readyState[ws] = "open"

C15_Witness ==
  /\ status = "connected"
  /\ ws # 0 /\ readyState[ws] = "open"
  /\ last.op = "unsubscribe"
  /\ DOMAIN subscriptions = {}
  /\ reconnectTimer

LiveSockets == {s \in Sockets : readyState[s] \in {"connecting", "open"}}

C16_CreateStep ==
  \A s \in Sockets :
    readyState'[s] = "connecting" /\ readyState[s] # "connecting" =>
      \A t \in Sockets : readyState[t] \in {"none", "closed"}

\* C16: at most one WebSocket is connecting or open at any time, and a
\* socket is created only in a state where every earlier one has closed.
C16_OneSocket ==
  /\ [](Cardinality(LiveSockets) <= 1)
  /\ [][C16_CreateStep]_vars

C16_Witness ==
  /\ last.op = "connect" /\ last.arg = "promise"
  /\ ws # 0 /\ readyState[ws] = "connecting"
  /\ Cardinality(LiveSockets) = 1
  /\ reconnectAttempt = 1
  /\ reconnectTimer

C17_ShareStep ==
  last'.op \in {"connect", "subscribe", "callService", "reconnect"} =>
    /\ connectPromise # 0 =>
         /\ connectPromise' = connectPromise
         /\ readyState' = readyState
         /\ ws' = ws
         /\ last'.op = "connect" => last'.arg = "promise"
         /\ last'.op = "callService" /\ last'.arg # "" =>
              /\ Len(waiters') = Len(waiters) + 1
              /\ waiters'[Len(waiters')].p = connectPromise
    /\ status = "connected" /\ ws # 0 =>
         /\ connectPromise' = 0
         /\ readyState' = readyState
         /\ ws' = ws
         /\ last'.op = "connect" => last'.arg = "resolved"

\* C17: while a connection attempt is in progress every connect(), whether
\* called directly, by subscribe, by callService or by the reconnect timer,
\* returns the attempt's promise and creates no socket; while the client is
\* connected connect() resolves at once and creates no socket.
C17_SharedAttempt == [][C17_ShareStep]_vars

C17_Witness ==
  /\ last.op = "callService"
  /\ Len(waiters) = 2
  /\ waiters[1].p = connectPromise /\ waiters[2].p = connectPromise
  /\ DOMAIN subscriptions # {}
  /\ Cardinality(LiveSockets) = 1

C18_TimerStep ==
  /\ last'.op \in {"error", "close"} /\ DOMAIN subscriptions = {} =>
       reconnectTimer' = reconnectTimer /\ reconnectAttempt' = reconnectAttempt
  /\ last'.op = "reconnect" => DOMAIN subscriptions # {}

\* C18: a connection loss with an empty subscription table schedules no
\* reconnect, and the reconnect timer calls connect() only while at least
\* one subscription exists.
C18_ReconnectNeedsSubscription == [][C18_TimerStep]_vars

\* A socket is lost: its error event, or the close event of an open socket.
LossStep == last'.op = "error" \/ (last'.op = "close" /\ last'.arg = "open")

\* C19 as stated: each connection loss with a subscription in the table
\* advances the backoff counter by exactly one.
C19_Original ==
  [][LossStep /\ DOMAIN subscriptions # {} =>
       reconnectAttempt' = reconnectAttempt + 1]_vars

C19_LossStep ==
  /\ LossStep =>
       reconnectAttempt' =
         IF DOMAIN subscriptions # {} /\ reconnectTimeouts = 0
           THEN reconnectAttempt + 1 ELSE reconnectAttempt
  /\ last'.op = "close" /\ last'.arg = "errored" =>
       reconnectAttempt' = reconnectAttempt /\ reconnectTimeouts' = reconnectTimeouts
  /\ reconnectTimeouts' > reconnectTimeouts => reconnectTimeouts = 0

\* C19: at most one reconnect timer is pending; a connection loss advances
\* the backoff counter by exactly one when a subscription exists and no
\* reconnect timer is pending, and leaves it alone otherwise; the close
\* event that follows a socket's error event schedules nothing more, and no
\* timer is started while one is pending.
C19_OneTimer ==
  /\ [](reconnectTimeouts <= 1 /\ (reconnectTimer <=> reconnectTimeouts = 1))
  /\ [][C19_LossStep]_vars

C19_Witness ==
  /\ last.op = "close" /\ last.arg = "errored"
  /\ reconnectTimeouts = 1
  /\ reconnectAttempt = 2
  /\ DOMAIN subscriptions # {}

\* The subscribe calls for topic t and handler h whose unsubscribe function
\* has not been invoked.
ActiveRegs(t, h) ==
  {r \in 1..Len(regs) : regs[r].topic = t /\ regs[r].handler = h /\ ~regs[r].called}

\* C20: a 'publish' frame for T invokes exactly the handlers that have a
\* subscribe(T, h) call whose own unsubscribe function has not been invoked;
\* invoking another call's unsubscribe function, once or repeatedly, takes
\* no delivery away.
C20_DeliveryPerRegistration ==
  last.op = "publish" /\ last.topic # "" =>
    \A h \in Handlers : invoked[h] # <<>> <=> ActiveRegs(last.topic, h) # {}

C21_OptionsStep ==
  /\ \A f \in sent' :
       f.op = "subscribe" =>
         /\ f.topic \in DOMAIN subscriptions'
         /\ f.type = subscriptions'[f.topic].options.type
         /\ f.queue_length = IF subscriptions'[f.topic].options.queue_length = Undefined
                               THEN 1 ELSE subscriptions'[f.topic].options.queue_length
         /\ f.throttle_rate = IF subscriptions'[f.topic].options.throttle_rate = Undefined
                                THEN 100 ELSE subscriptions'[f.topic].options.throttle_rate
  /\ \A t \in DOMAIN subscriptions \cap DOMAIN subscriptions' :
       subscriptions'[t].options = subscriptions[t].options
  /\ last'.op = "subscribe" /\ last'.topic # "" /\ last'.topic \notin DOMAIN subscriptions =>
       subscriptions'[last'.topic].options = last'.options

\* C21: every 'subscribe' frame for topic T, sent by subscribe() or on a
\* reconnect, carries the options stored in T's entry; the entry's options
\* are those of the subscribe() call that created it and do not change while
\* the entry exists, whatever options later calls pass.
C21_FirstOptionsWin == [][C21_OptionsStep]_vars

C21_Witness ==
  /\ last.op = "subscribe"
  /\ last.options.queue_length = 5
  /\ last.topic \in DOMAIN subscriptions
  /\ subscriptions[last.topic].options.queue_length = Undefined
  /\ \E f \in sent : f.op = "subscribe" /\ f.topic = last.topic /\ f.queue_length = 1
  /\ reconnectTimer

C22_ResponseStep ==
  last'.op = "service_response" =>
    IF last'.id \in DOMAIN pendingServiceCalls
      THEN LET k == pendingServiceCalls[last'.id]
           IN /\ call[k] = "pending"
              /\ call'[k] = IF last'.arg = "false" THEN "failed" ELSE "resolved"
              /\ callValue'[k] = IF last'.arg = "false" THEN callValue[k]
                                 ELSE [id |-> last'.id, result |-> last'.arg]
              /\ settles'[k] = 1
              /\ last'.id \notin DOMAIN pendingServiceCalls'
              /\ \A j \in Slots \ {k} : call'[j] = call[j] /\ callValue'[j] = callValue[j]
      ELSE /\ call' = call /\ callValue' = callValue /\ settles' = settles
           /\ pendingServiceCalls' = pendingServiceCalls /\ timers' = timers
           /\ status' = status /\ ws' = ws /\ subscriptions' = subscriptions
           /\ connectPromise' = connectPromise /\ serviceRequestSeq' = serviceRequestSeq
           /\ reconnectTimer' = reconnectTimer /\ reconnectAttempt' = reconnectAttempt
           /\ sent' = {} /\ waiters' = waiters

\* C22: a service_response with result false rejects the pending call of
\* its id as failed; with result true or without a result it resolves that
\* call with the response payload; without an id, or with an id that is not
\* in the pending table, it changes nothing of the client.
C22_ServiceResponse == [][C22_ResponseStep]_vars

C22_Witness ==
  /\ last.op = "service_response" /\ last.arg = "absent"
  /\ \E k, j \in Slots :
       /\ call[k] = "resolved" /\ callId[k] = last.id
       /\ callValue[k] = [id |-> last.id, result |-> "absent"]
       /\ call[j] = "failed" /\ callValue[j].result = "none"

C23_SettleStep ==
  /\ last'.op = "open" => promise'[last'.sock] = "resolved"
  /\ last'.op = "error" /\ readyState[last'.sock] = "connecting" =>
       promise'[last'.sock] = "rejected"
  /\ last'.op \in {"open", "error"} =>
       \A i \in 1..Len(waiters) :
         waiters[i].p = last'.sock => call'[waiters[i].slot] \notin {"awaiting", "unused"}

\* C23: the promise connect() made for a socket is pending exactly while
\* that socket is connecting, resolves when the socket opens and rejects
\* when it fails; the callers awaiting it are resumed in the same task, so
\* none waits on a socket that is open, failed or closed; and every pending
\* promise is eventually settled.
C23_ConnectSettles ==
  /\ [](\A s \in Sockets : promise[s] = "pending" <=> readyState[s] = "connecting")
  /\ [](\A i \in 1..Len(waiters) :
          promise[waiters[i].p] = "pending" /\ call[waiters[i].slot] = "awaiting")
  /\ [](\A k \in Slots : call[k] = "awaiting" => \E i \in 1..Len(waiters) : waiters[i].slot = k)
  /\ [][C23_SettleStep]_vars
  /\ \A s \in Sockets : (promise[s] = "pending") ~> (promise[s] \in {"resolved", "rejected"})

C23_Witness ==
  /\ last.op = "error"
  /\ promise[last.sock] = "rejected"
  /\ readyState[last.sock] = "errored"
  /\ waiters = <<>>
  /\ \E k \in Slots : call[k] = "connect_rejected"

\* The frame of the step is one the client has no use for.
IgnoredFrame ==
  /\ last'.op = "message"
  /\ \/ last'.data # "object"
     \/ last'.arg \notin {"publish", "service_response"}
     \/ last'.arg = "publish" /\ (last'.topic = "" \/ last'.topic \notin DOMAIN subscriptions)

\* C24: a frame that is empty, is not JSON, is the JSON null, has another op
\* than 'publish' and 'service_response', or is a 'publish' without a topic
\* or for a topic without an entry invokes no handler and leaves the status,
\* the subscription table and the pending calls as they were.
C24_IgnoredFrames ==
  [][IgnoredFrame =>
       /\ \A h \in Handlers : invoked'[h] = <<>>
       /\ status' = status
       /\ subscriptions' = subscriptions
       /\ pendingServiceCalls' = pendingServiceCalls
       /\ timers' = timers
       /\ call' = call /\ settles' = settles /\ callValue' = callValue
       /\ sent' = {}]_vars

C24_Witness ==
  /\ last.op = "message" /\ last.data = "object" /\ last.arg = "status"
  /\ last.topic \in DOMAIN subscriptions
  /\ last.id \in DOMAIN pendingServiceCalls
  /\ \A h \in Handlers : invoked[h] = <<>>

\* One entry per string of the response's topics array, in response order,
\* with the type at the same position of the response's types array.
RECURSIVE PairedFrom(_, _, _)
PairedFrom(names, types, j) ==
  IF j > Len(names) THEN <<>>
  ELSE (IF names[j].str
          THEN <<[name |-> names[j].v,
                  type |-> IF j <= Len(types) /\ types[j].str THEN types[j].v ELSE ""]>>
          ELSE <<>>) \o PairedFrom(names, types, j + 1)

\* C25: listTopics returns one entry per topic name of the response, in
\* response order, each with the type at the same position of the types
\* array, '' when that type is missing or not a string; without a topics
\* array it returns the empty list.
C25_ListTopics ==
  last.op = "listTopics" =>
    listResult =
      IF listValues.present /\ listValues.topics.array
        THEN PairedFrom(listValues.topics.items,
                        IF listValues.types.array THEN listValues.types.items ELSE <<>>, 1)
        ELSE <<>>

C26_NotifyStep ==
  /\ IF status' # status
       THEN /\ Len(notified') = Len(statusListeners)
            /\ \A i \in 1..Len(notified') :
                 /\ notified'[i].listener = statusListeners[i]
                 /\ notified'[i].value = status'
                 /\ notified'[i].getStatus = status'
       ELSE notified' = <<>>
  /\ \A i, j \in 1..Len(statusListeners') : statusListeners'[i] = statusListeners'[j] => i = j
  /\ last'.op = "onStatusChange" =>
       {statusListeners'[i] : i \in 1..Len(statusListeners')} =
         {statusListeners[i] : i \in 1..Len(statusListeners)} \cup {last'.handler}
  /\ last'.op = "offStatusChange" =>
       {statusListeners'[i] : i \in 1..Len(statusListeners')} =
         {statusListeners[i] : i \in 1..Len(statusListeners)} \ {last'.handler}
  /\ last'.op \notin {"onStatusChange", "offStatusChange"} =>
       statusListeners' = statusListeners

\* C26: a task calls the status listeners exactly when it changes the
\* status: each listener registered and not removed since is called once,
\* with the new status, which is what getStatus() returns at that moment; a
\* task that leaves the status as it is calls none; the function returned
\* by onStatusChange removes its listener, which is not called from then on.
C26_StatusListeners == [][C26_NotifyStep]_vars

C26_Witness ==
  /\ last.op = "close" /\ status = "disconnected"
  /\ statusListeners = <<"h2">>
  /\ statusOffs = <<"h1", "h2">>
  /\ notified = <<[listener |-> "h2", value |-> "disconnected", getStatus |-> "disconnected"]>>

\* C27: a draft written under (kind, S, B) holds a blueprint that was
\* loaded or edited while S was the current session; after a change of the
\* session id nothing is written under the new session's key before the
\* new session's blueprint has been applied.
C27_DraftOfItsSession ==
  pageLast.op = "effect" /\ pageLast.wrote => blueprintSession = pageLast.session

\* A step in which the status listener of the topics page starts a refresh:
\* the socket opens and a refreshTopics call is in flight that was not before.
ListenerStarts == last'.op = "open" /\ refreshing' \ refreshing # {}

\* C28: loadingTopics is true exactly while a refreshTopics call is in
\* flight, overlapping refreshes included, and a status change to
\* 'connected' starts a refresh only when the topic list is empty and no
\* refresh is in flight.
C28_LoadingWhileRefreshing ==
  /\ [](loadingTopics <=> refreshing # {})
  /\ [][ListenerStarts => Len(topics) = 0 /\ refreshing = {}]_vars

\* The topics for which the client holds the handler of a view.
HeldBy(handler) ==
  {t \in DOMAIN subscriptions : handler \in subscriptions[t].handlers}
\* A view holds at most one registration, for its topic, and none while
\* it does not exist or has no topic.
OneRegistration(handler, alive, topic) ==
  /\ HeldBy(handler) \subseteq {topic}
  /\ (~alive \/ topic = "") => HeldBy(handler) = {}

\* C29: each telemetry view has at most one handler registered with the
\* client, for its current topic; a topic change removes the previous
\* registration before adding the new one, and none remains once the
\* topic is empty or the component is destroyed.
C29_OneRegistrationPerView ==
  /\ OneRegistration(LogHandler, logAlive, logTopic)
  /\ OneRegistration(JointHandler, jointAlive, jointTopic)
  /\ OneRegistration(CameraHandler, camAlive, camTopic)
\* LogView was given another topic in place of one it was subscribed to,
\* while the other views hold registrations of their own.
C29_Witness ==
  /\ last.op = "topic" /\ last.handler = LogHandler
  /\ last.arg # "" /\ last.topic # ""
  /\ HeldBy(LogHandler) = {logTopic}
  /\ HeldBy(JointHandler) # {}
  /\ HeldBy(CameraHandler) # {}

\* The last n elements of a sequence.
LastOf(array, n) == SubSeq(array, Len(array) - n + 1, Len(array))
StrictlyIncreasing(data) ==
  \A i \in 1..Len(data), k \in 1..Len(data) : i < k => data[i] < data[k]

\* C30: after every message LogView holds exactly the last
\* min(n, maxLines) of the n lines received, in arrival order, and a
\* JointState series holds at most maxPoints points with strictly
\* increasing sample index, whatever maxLines and maxPoints are.
C30_BuffersBounded ==
  last.op = "publish" =>
    /\ lines = LastOf(received, Min(Len(received), maxLines))
    /\ Len(posSeries) <= maxPoints
    /\ StrictlyIncreasing(posSeries)

\* The size of the container along the direction of the split, at the
\* last event.
SplitTotal == IF direction = "row" THEN splitLast.rect.width ELSE splitLast.rect.height

\* C31: SplitPane emits a resize event only during a drag (after a
\* pointerdown on the handle, before the next pointerup or pointerleave)
\* and while editable; every emitted pair has min <= sizes[0] <= 1 - min
\* and sizes[0] + sizes[1] = 1; moves outside a drag or over a container
\* of zero size emit nothing.
C31_ResizeOnlyInDrag ==
  /\ dispatched # <<>> =>
       /\ pressed /\ editable
       /\ splitLast.op \in {"pointerdown", "pointermove"}
       /\ SplitTotal > 0
  /\ \A i \in 1..Len(dispatched) :
       /\ FracLeq(SplitMin, dispatched[i][1])
       /\ FracLeq(dispatched[i][1], FracSub(One, SplitMin))
       /\ FracEq(FracAdd(dispatched[i][1], dispatched[i][2]), One)
\* A move during a drag, left of the container: the ratio is clamped.
C31_Witness ==
  /\ splitLast.op = "pointermove"
  /\ direction = "row"
  /\ splitLast.event.clientX < splitLast.rect.left
  /\ Len(dispatched) = 1
  /\ FracEq(dispatched[1][1], SplitMin)

\* The edit handler of the step finds no node of the type it needs, or
\* the delete it asks to confirm is declined.
NothingToEdit ==
  LET types == SelectedTypes(blueprint, selectedId)
      op == editorLast'.op
  IN \/ op \in {"split", "tabs", "delete"} /\ types = {}
     \/ op \in {"viewType", "config"} /\ "view" \notin types
     \/ op \in {"addTab", "renameTab", "removeTab"} /\ "tabs" \notin types
     \/ op = "delete" /\ ~editorLast'.confirmed

\* C32: a click or an Enter/Space key press selects exactly the innermost
\* LayoutNode under the event, and only in edit mode; with edit mode off
\* onSelect is never called.  The edit handlers leave the blueprint as it
\* is when no node of the type they need is selected or the delete is not
\* confirmed.
C32_SelectInnermost ==
  /\ [](/\ editorLast.op = "click" \/ (editorLast.op = "keydown" /\ editorLast.key \in {"Enter", " "}) =>
             onSelectCalls = IF editMode THEN <<editorLast.target>> ELSE <<>>
        /\ editorLast.op = "keydown" /\ editorLast.key \notin {"Enter", " "} =>
             onSelectCalls = <<>>
        /\ onSelectCalls # <<>> => selectedId = editorLast.target
        /\ ~editMode => onSelectCalls = <<>>)
  /\ [][NothingToEdit => blueprint' = blueprint]_vars
\* A click on a view two levels below the root selected that view alone.
C32_Witness ==
  /\ editorLast.op = "click"
  /\ Len(RenderedPath(blueprint, editorLast.target)) = 3
  /\ onSelectCalls = <<editorLast.target>>
  /\ selectedId = editorLast.target

\* A tree without the configs of its views.
RECURSIVE Shape(_)
Shape(node) ==
  IF node.type = "view" THEN [id |-> node.id, type |-> "view", viewType |-> node.viewType]
  ELSE IF node.type = "split"
    THEN [id |-> node.id, type |-> "split",
          children |-> <<Shape(node.children[1]), Shape(node.children[2])>>]
  ELSE [id |-> node.id, type |-> "tabs", activeId |-> node.activeId,
        tabs |-> [i \in DOMAIN node.tabs |->
                    [id |-> node.tabs[i].id, child |-> Shape(node.tabs[i].child)]]]
\* The config `after` is the defaults with the config `before` over them.
Overlaid(before, after, defaults) ==
  /\ DOMAIN after = DOMAIN before \cup DOMAIN defaults
  /\ \A k \in DOMAIN before : after[k] = before[k]
  /\ \A k \in DOMAIN defaults \ DOMAIN before : after[k] = defaults[k]
FilledFrom(input, output) ==
  /\ Shape(output) = Shape(input)
  /\ \A id \in NodeIds : \A n \in findNode(input, id) : \A m \in findNode(output, id) :
       n.type = "view" =>
         IF n.viewType \in {"camera", "joint_state"}
           THEN Overlaid(n.config, m.config, defaultConfig(n.viewType, QueryTopics))
           ELSE m = n

\* C33: fillDefaultConfig returns a tree of the same ids, types and shape
\* in which each view's config is the type's default config with the
\* node's own config over it, views of a type without default config
\* unchanged; it is applied at most once per applied blueprint and only
\* when the topic list is not empty.
C33_FillDefaults ==
  /\ \A i \in 1..Len(editorLast.fill) :
       FilledFrom(editorLast.fill[i].input, editorLast.fill[i].output)
  /\ editorLast.fill # <<>> => topicsLoaded /\ Len(QueryTopics) > 0 /\ Len(editorLast.fill) = 1
  /\ fills <= 1
\* The defaults were filled into a tree whose camera view has a topic of
\* its own and whose other views have none.
C33_Witness ==
  /\ Len(editorLast.fill) = 1
  /\ editorLast.op = "apply"
  /\ fills = 1
  /\ \E n \in findNode(editorLast.fill[1].input, "v1") :
       n.type = "view" /\ n.viewType = "camera" /\ "topic" \in DOMAIN n.config
  /\ \E n \in findNode(blueprint, "v2") :
       n.type = "view" /\ DOMAIN n.config = {"topic", "maxPoints"}
  /\ editorLast.fill[1].output # editorLast.fill[1].input

\* The steps of the analyses page that edit the blocks by hand.
BlockEdits == {"update", "add", "remove"}
\* A save has just failed: replaceAnalyses or the refetch rejected.
SaveJustFailed == analysesLast'.outcome = "rejected"
FailedSaveKeeps ==
  SaveJustFailed =>
    /\ analysisBlocks' = analysisBlocks
    /\ saveError' = SaveFailed
    /\ saveSuccess' = ""
    /\ submitting' = FALSE
\* Outside an initialisation and an edit by hand, the blocks change only
\* when a save has succeeded.
ReplacedOnlyAfterSave ==
  (analysisBlocks' # analysisBlocks /\ ~analysesLast'.init
     /\ analysesLast'.op \notin BlockEdits) =>
    /\ analysesLast'.op = "refetched" /\ analysesLast'.outcome = "resolved"
    /\ saveSuccess' = SaveDone

\* C34 as stated: a failed save leaves the local blocks unchanged, sets
\* error, leaves success empty and returns submitting to false; the blocks
\* are initialised from the server once per experiment id, and replaced by
\* server data again only after a successful save.
C34_InitialisedOncePerId ==
  /\ [][FailedSaveKeeps]_vars
  /\ [][analysesLast'.init => experiment' \notin initialised]_vars
  /\ [][ReplacedOnlyAfterSave]_vars

\* C34, amended: a failed save leaves the local blocks unchanged, sets
\* error, leaves success empty and returns submitting to false; the blocks
\* are initialised from the server whenever the experiment shown, with its
\* analyses loaded, is not the one they were last initialised for (so again
\* when the page returns to an experiment after showing another), and are
\* otherwise replaced by server data only after a successful save.
C34_FailedSaveKeepsBlocks ==
  /\ [][FailedSaveKeeps]_vars
  /\ [][analysesLast'.init <=>
          (experiment' # "" /\ analysesData' # NoData /\ experiment' # initializedId)]_vars
  /\ [][ReplacedOnlyAfterSave]_vars
\* A save has failed while the local blocks differ from the server's.
C34_Witness ==
  /\ analysesLast.outcome = "rejected"
  /\ saveError = SaveFailed
  /\ analysesData # NoData
  /\ analysisBlocks # fromServer(Analyses).analysisBlocks

\* C35: actionPending is true from the start of startVlabor or stopVlabor
\* until that action has finished, and false with actionIntent empty
\* afterwards, whether the action succeeded or failed; at most one start or
\* stop action is in flight at a time.
C35_OneActionInFlight ==
  /\ [](actionPending <=> actionCalls # <<>>)
  /\ [](Len(actionCalls) <= 1)
  /\ [](~actionPending => actionIntent = "")
  /\ [][setupLast'.op \in {"startVlabor", "stopVlabor"} => actionPending']_vars
  /\ [][Len(actionCalls') < Len(actionCalls) =>
          (~actionPending' /\ actionIntent' = "")]_vars
\* A stop action has failed and has ended.
C35_Witness ==
  /\ setupLast.outcome = "rejected"
  /\ actionMessage = StopFailed
  /\ ~actionPending
  /\ actionCalls = <<>>

\* C36: startSession is called only once createSession has succeeded, with
\* the session id createSession returned ("teleop" when it returned none);
\* stopVlabor stops that same session id; when createSession fails,
\* startSession is not called.
C36_StopsStartedSession ==
  /\ [][setupLast'.api = "startSession" =>
          /\ setupLast'.op = "created" /\ setupLast'.outcome = "resolved"
          /\ setupLast'.arg = (IF setupLast'.returned = Null
                                 THEN TeleopId ELSE setupLast'.returned)]_vars
  /\ [][(setupLast'.api = "stopSession" /\ startedId # "") =>
          setupLast'.arg = startedId]_vars
  /\ [][(setupLast'.op = "create" /\ setupLast'.outcome = "rejected") =>
          setupLast'.api # "startSession"]_vars

====
